---- MODULE Spec2Model ----
(***************************************************************************)
(* A model of the arXiv daily pipeline: the two model dispatchers          *)
(* (filter.py, llm_utils.py), the relevance filter, the rating extractor,  *)
(* the summarizer and the orchestrator main() with its command line.       *)
(*                                                                         *)
(* Text is a sequence of symbols (strings): single characters for short    *)
(* replies, lexemes (a code fence, a JSON value) for structured replies.   *)
(* Python's None / a str is Opt: NoneV or Some(text).                      *)
(***************************************************************************)
EXTENDS Integers, Sequences, FiniteSets, TLC

VARIABLES
    fs,       \* daily_json/<feed>/<date>.json : key -> file state
    html,     \* daily_html/<feed>/<date>.html : set of keys rendered
    reports,  \* reports.json : Opt(sequence of relative paths)
    pc,       \* position of the running main() ("idle" when none runs)
    cur,      \* arguments and locals of the running main()
    papers,   \* raw_papers / filtered_papers of the running main()
    calls,    \* calls the running main() has made to its collaborators, in order
    cli,      \* the command line process: remaining dates of the backfill
    runs,     \* number of main() invocations started so far
    prev,     \* the previous main() invocation: its key and how it ended
    fin,      \* input of the function under study (function-level specifications)
    fout      \* its result

orchVars == <<fs, html, reports, pc, cur, papers, calls, cli, runs, prev>>
vars == <<fs, html, reports, pc, cur, papers, calls, cli, runs, prev, fin, fout>>

-----------------------------------------------------------------------------
(* Python values *)

NoneV == [some |-> FALSE, text |-> <<>>]
Some(t) == [some |-> TRUE, text |-> t]

\* bool(x) of an Optional[str]: None and "" are falsy
Truthy(o) == o.some /\ o.text # <<>>

RECURSIVE Range(_)
Range(s) == IF s = <<>> THEN {} ELSE {Head(s)} \cup Range(Tail(s))

-----------------------------------------------------------------------------
(* str methods *)

Whitespace == {" ", "\n"}

LowerChar(c) ==
    CASE c = "Y" -> "y"
      [] c = "E" -> "e"
      [] c = "S" -> "s"
      [] c = "N" -> "n"
      [] c = "O" -> "o"
      [] c = "A" -> "a"
      [] OTHER -> c

\* str.lower()
Lower(t) == [i \in 1..Len(t) |-> LowerChar(t[i])]

\* p occurs somewhere in t
HasAnywhere(t, p) == \E i \in 0..(Len(t) - Len(p)) : SubSeq(t, i + 1, i + Len(p)) = p

\* str.startswith(p)
StartsWith(t, p) == Len(t) >= Len(p) /\ SubSeq(t, 1, Len(p)) = p

\* str.endswith(p)
EndsWith(t, p) == Len(t) >= Len(p) /\ SubSeq(t, Len(t) - Len(p) + 1, Len(t)) = p

\* the positions where p occurs in t
Occurrences(t, p) == {i \in 1..(Len(t) - Len(p) + 1) : SubSeq(t, i, i + Len(p) - 1) = p}

\* p in t
Contains(t, p) == Occurrences(t, p) # {}

Min(S) == CHOOSE m \in S : \A n \in S : m <= n

\* str.strip()
RECURSIVE LStrip(_)
LStrip(t) == IF t # <<>> /\ Head(t) \in Whitespace THEN LStrip(Tail(t)) ELSE t

RECURSIVE RStrip(_)
RStrip(t) ==
    IF t # <<>> /\ t[Len(t)] \in Whitespace THEN RStrip(SubSeq(t, 1, Len(t) - 1)) ELSE t

Strip(t) == RStrip(LStrip(t))

\* t.split(p)[0]: the text before the first occurrence of p
SplitFirst(t, p) ==
    IF Contains(t, p) THEN SubSeq(t, 1, Min(Occurrences(t, p)) - 1) ELSE t

\* t.split(p)[1]: the text between the first and the second occurrence of p
\* (only evaluated when p occurs in t)
SplitSecond(t, p) ==
    LET rest == SubSeq(t, Min(Occurrences(t, p)) + Len(p), Len(t))
    IN SplitFirst(rest, p)

-----------------------------------------------------------------------------
(* Chat messages.  A message is a dict with a role and a content; a plain    *)
(* string content is one part of type "str", a structured content is the     *)
(* list of its typed parts.                                                  *)

Part(type, text) == [type |-> type, text |-> text]
UserMessage(prompt) == [role |-> "user", content |-> <<Part("str", prompt)>>]

NoMessages == [some |-> FALSE, list |-> <<>>]
SomeMessages(l) == [some |-> TRUE, list |-> l]

\* What the outside world does during one dispatcher call.
\*   key    : OPENROUTER_API_KEY is set
\*   import : the Azure helper module can be imported
\*   http   : how the chat-completions request ends
\*   body   : the reply field of a well-formed response body
\*   azure  : what the Azure helper does when called ("text", "none", "raise")
HttpOutcomes ==
    {"ok", "timeout", "conn_error", "status_500", "bad_json",
     "no_choices", "empty_choices", "null_content"}

AzureOutcomes == {"text", "none", "raise"}

Env(key, import, http, body, azure) ==
    [key |-> key, import |-> import, http |-> http, body |-> body, azure |-> azure]

AzurePrefix == <<"a", "z", "u", "r", "e", "-">>

\* The exception a chat-completions request ends with ("none": it returns).
HttpException(http) ==
    CASE http = "ok" -> "none"
      [] http \in {"timeout", "conn_error", "status_500"} -> "RequestException"
      [] http = "bad_json" -> "ValueError"
      [] http = "no_choices" -> "KeyError"
      [] http = "empty_choices" -> "IndexError"
      [] http = "null_content" -> "AttributeError"

\* The classes deriving from Exception that the model raises.
ExceptionClasses ==
    {"RequestException", "ValueError", "KeyError", "IndexError", "AttributeError",
     "TypeError", "JSONDecodeError", "RuntimeError", "AssertionError", "OSError",
     "FileNotFoundError"}

\* The except clauses around the request: RequestException, (KeyError,
\* IndexError), Exception.
HandlersNoCatchAll(exc) == exc \in {"RequestException", "KeyError", "IndexError"}

OpenRouterHandlers(exc) ==
    \/ exc = "RequestException"
    \/ exc \in {"KeyError", "IndexError"}
    \/ exc \in ExceptionClasses

\* Result of a dispatcher call: the value returned, the exception that
\* escaped ("none" when it returned) and the requests handed to a backend.
Returned(ret, sent) == [ret |-> ret, raised |-> "none", sent |-> sent]
Raised(exc, sent) == [ret |-> NoneV, raised |-> exc, sent |-> sent]

Request(backend, model, messages, max_tokens) ==
    [backend |-> backend, model |-> model, messages |-> messages,
     max_tokens |-> max_tokens]

\* requests.post(...) ... return ai_response, inside try/except
PostCompletion(req, env) ==
    LET exc == HttpException(env.http)
    IN IF exc = "none" THEN Returned(Some(Strip(env.body)), <<req>>)
       ELSE IF OpenRouterHandlers(exc) THEN Returned(NoneV, <<req>>)
       ELSE Raised(exc, <<req>>)

\* the Azure helper call inside try/except Exception
AzureCompletion(req, env) ==
    LET exc == IF env.azure = "raise" THEN "RuntimeError" ELSE "none"
    IN IF exc = "none"
       THEN Returned(IF env.azure = "text" THEN Some(env.body) ELSE NoneV, <<req>>)
       ELSE IF exc \in ExceptionClasses THEN Returned(NoneV, <<req>>)
       ELSE Raised(exc, <<req>>)

-----------------------------------------------------------------------------
(* filter.py: the dispatcher used by the filter and the rating extractor *)

FilterAzureExtraTokens == 10000

filter_call_openrouter_api(prompt, model, max_tokens, env) ==
    IF ~env.key THEN Returned(NoneV, <<>>)
    ELSE PostCompletion(
             Request("openrouter", model, <<UserMessage(prompt)>>, max_tokens), env)

filter_call_llm_by_model(prompt, model, max_tokens, env) ==
    IF StartsWith(model, AzurePrefix)
    THEN IF ~env.import THEN Returned(NoneV, <<>>)
         ELSE LET deployment == SubSeq(model, Len(AzurePrefix) + 1, Len(model))
              IN AzureCompletion(
                     Request("azure", deployment, <<UserMessage(prompt)>>,
                             max_tokens + FilterAzureExtraTokens), env)
    ELSE filter_call_openrouter_api(prompt, model, max_tokens, env)

-----------------------------------------------------------------------------
(* llm_utils.py: the dispatcher used by the summarizer.  prompt is an Opt,   *)
(* messages an optional list, attachments a list (None and [] are both <<>>) *)

\* _build_openrouter_messages: [ok |-> FALSE] is the failed assert
_build_openrouter_messages(prompt, messages) ==
    IF messages.some THEN [ok |-> TRUE, list |-> messages.list]
    ELSE IF ~prompt.some THEN [ok |-> FALSE, list |-> <<>>]
    ELSE [ok |-> TRUE, list |-> <<UserMessage(prompt.text)>>]

\* the messages without the attachments
AttachNever(msgs, attachments) == msgs

\* msgs[0]["attachments"] = attachments when the first message is a user message
Attach(msgs, attachments) ==
    IF attachments # <<>> /\ msgs # <<>> /\ msgs[1].role = "user"
    THEN [msgs EXCEPT ![1] =
             [role |-> msgs[1].role, content |-> msgs[1].content,
              attachments |-> attachments]]
    ELSE msgs

call_openrouter_api(prompt, model, max_tokens, messages, attachments, env) ==
    IF ~env.key THEN Returned(NoneV, <<>>)
    ELSE LET built == _build_openrouter_messages(prompt, messages)
         IN IF ~built.ok THEN Raised("AssertionError", <<>>)
            ELSE PostCompletion(
                     Request("openrouter", model, Attach(built.list, attachments),
                             max_tokens), env)

call_llm_by_model(prompt, model, max_tokens, messages, attachments, env) ==
    IF StartsWith(model, AzurePrefix)
    THEN IF ~env.import THEN Returned(NoneV, <<>>)
         ELSE LET deployment == SubSeq(model, Len(AzurePrefix) + 1, Len(model))
                  msgs == IF messages.some THEN messages.list
                          ELSE <<UserMessage(IF prompt.some THEN prompt.text ELSE <<>>)>>
              IN AzureCompletion(Request("azure", deployment, msgs, max_tokens), env)
    ELSE call_openrouter_api(prompt, model, max_tokens, messages, attachments, env)

-----------------------------------------------------------------------------
(* Paper records are dicts: functions from field names to values.  The feed  *)
(* gives id, title, summary and url; rating and summarization add fields.    *)

\* dict.get(k, default)
Get(d, k, default) == IF k \in DOMAIN d THEN d[k] ELSE default

\* dict.update(other) for a dict other
Update(d, other) ==
    [k \in (DOMAIN d) \cup (DOMAIN other) |->
        IF k \in DOMAIN other THEN other[k] ELSE d[k]]

-----------------------------------------------------------------------------
(* filter.py: filter_papers_by_topic *)

FilterMaxTokens == 5

Yes == <<"y", "e", "s">>

FilterPrompt(topic, paper) ==
    <<"Is the following paper primarily about", topic, "Title:",
      Get(paper, "title", "N/A"), "Abstract:", Get(paper, "summary", "N/A")>>

\* 'yes' in ai_response.lower()
IsYesExact(reply) == reply.some /\ reply.text = Yes

IsYes(reply) == reply.some /\ Contains(Lower(reply.text), Yes)

\* A dispatcher call as its caller makes it.
Call(prompt, model, max_tokens) ==
    [prompt |-> prompt, model |-> model, max_tokens |-> max_tokens]

\* The loop over the papers from index i on; envs[j] is what the world does
\* during the j-th dispatcher call.  The result holds the retained papers,
\* the dispatcher calls made (in order), the requests that reached a backend
\* and the escaped exception.
RECURSIVE FilterLoop(_, _, _, _, _)
FilterLoop(papers_, topic, model, envs, i) ==
    IF i > Len(papers_)
    THEN [out |-> <<>>, calls |-> <<>>, sent |-> <<>>, raised |-> "none"]
    ELSE LET paper == papers_[i]
             prompt == FilterPrompt(topic, paper)
             r == filter_call_llm_by_model(prompt, model, FilterMaxTokens, envs[i])
             call == Call(prompt, model, FilterMaxTokens)
         IN IF r.raised # "none"
            THEN [out |-> <<>>, calls |-> <<call>>, sent |-> r.sent,
                  raised |-> r.raised]
            ELSE LET rest == FilterLoop(papers_, topic, model, envs, i + 1)
                 IN [out |-> (IF IsYes(r.ret) THEN <<paper>> ELSE <<>>) \o rest.out,
                     calls |-> <<call>> \o rest.calls,
                     sent |-> r.sent \o rest.sent,
                     raised |-> rest.raised]

filter_papers_by_topic(papers_, topic, model, envs) ==
    FilterLoop(papers_, topic, model, envs, 1)

-----------------------------------------------------------------------------
(* JSON.  A JSON text is one lexeme; json.loads maps the lexemes below to    *)
(* their values and raises JSONDecodeError on anything else.                 *)

JInt(n) == [k |-> "int", n |-> n]
JStr(n) == [k |-> "str", n |-> n]        \* the one-digit string of n
JNull == [k |-> "null", n |-> 0]
JDict(d) == [k |-> "dict", d |-> d]
JList(items) == [k |-> "list", items |-> items]
JText(t) == [k |-> "text", t |-> t]      \* a JSON string literal with text t

ScoreField == "overall_priority_score"

JsonValues ==
    [lex \in {"{score: 2}", "{score: 5}", "{score: 9}", "{score: '9'}",
              "{score: null}", "{tldr}", "{}", "5", "null", "[]", "[[tldr, x]]",
              "[5]", "''", "'ab'"} |->
        CASE lex = "{score: 2}" -> JDict([overall_priority_score |-> JInt(2), tldr |-> "t"])
          [] lex = "{score: 5}" -> JDict([overall_priority_score |-> JInt(5), tldr |-> "t"])
          [] lex = "{score: 9}" -> JDict([overall_priority_score |-> JInt(9), tldr |-> "t"])
          [] lex = "{score: '9'}" -> JDict([overall_priority_score |-> JStr(9), tldr |-> "t"])
          [] lex = "{score: null}" -> JDict([overall_priority_score |-> JNull, tldr |-> "t"])
          [] lex = "{tldr}" -> JDict([tldr |-> "t"])
          [] lex = "{}" -> JDict(<<>>)
          [] lex = "5" -> JInt(5)
          [] lex = "null" -> JNull
          [] lex = "[]" -> JList(<<>>)
          [] lex = "[[tldr, x]]" -> JList(<<JList(<<JText("tldr"), JText("x")>>)>>)
          [] lex = "[5]" -> JList(<<JInt(5)>>)
          [] lex = "''" -> JText(<<>>)
          [] lex = "'ab'" -> JText(<<"a", "b">>)]

\* json.loads: surrounding whitespace is skipped, one value is read
json_loads(t) ==
    LET s == Strip(t)
    IN IF Len(s) = 1 /\ s[1] \in DOMAIN JsonValues
       THEN [ok |-> TRUE, v |-> JsonValues[s[1]]]
       ELSE [ok |-> FALSE, v |-> JNull]

\* An element of an iterable that dict.update can read as a (key, value) pair:
\* a list of two items whose first is a string.
IsPair(x) == x.k = "list" /\ Len(x.items) = 2 /\ x.items[1].k = "text"

\* the dict of a list of pairs; values of pairs are kept as plain text "x"
PairsDict(items) ==
    IF items = <<>> THEN <<>> ELSE [tldr |-> "x"]

\* paper.update(v) for the value v json.loads returned: the updated dict, or
\* the exception raised
dict_update(d, v) ==
    CASE v.k = "dict" -> [exc |-> "none", d |-> Update(d, v.d)]
      [] v.k = "list" ->
            IF \A i \in 1..Len(v.items) : IsPair(v.items[i])
            THEN [exc |-> "none", d |-> Update(d, PairsDict(v.items))]
            ELSE [exc |-> "TypeError", d |-> d]
      [] v.k = "text" ->
            IF v.t = <<>> THEN [exc |-> "none", d |-> d]
            ELSE [exc |-> "ValueError", d |-> d]
      [] OTHER -> [exc |-> "TypeError", d |-> d]

-----------------------------------------------------------------------------
(* filter.py: rate_papers *)

RatingMaxTokens == 1000

\* for attempt in range(2)
SingleAttempt == RatingMaxTokens \div RatingMaxTokens

MaxAttempts == 2

\* the lexemes of a code fence: three backquotes followed by json, and three
\* backquotes alone
FenceJson == <<"[fence json]">>
Fence == <<"[fence]">>

RatingPrompt(paper) ==
    <<"rating_prompt_template", Get(paper, "title", "N/A"), Get(paper, "summary", "N/A")>>

\* ai_response.split(FenceJson)[1].split(Fence)[0] when FenceJson is in the reply
StripFence(t) ==
    IF Contains(t, FenceJson) THEN SplitFirst(SplitSecond(t, FenceJson), Fence) ELSE t

\* The except clauses of the parsing block: json.JSONDecodeError, Exception.
RateHandlersJsonOnly(exc) == exc = "JSONDecodeError"

RateHandlers(exc) == exc = "JSONDecodeError" \/ exc \in ExceptionClasses

\* The body of the try block for a reply that is not None: the paper after
\* papers[i].update(rating_data), or the exception raised on the way.
ParseAndMerge(paper, text) ==
    LET parsed == json_loads(StripFence(text))
    IN IF ~parsed.ok THEN [exc |-> "JSONDecodeError", d |-> paper]
       ELSE dict_update(paper, parsed.v)

\* for attempt in range(2), from attempt a on; envs2[a + 1] is what the world
\* does during that attempt's dispatcher call.
RECURSIVE RateAttempts(_, _, _, _, _)
RateAttempts(paper, i, model, envs2, a) ==
    IF a >= MaxAttempts
    THEN [paper |-> paper, calls |-> <<>>, sent |-> <<>>, success |-> FALSE,
          raised |-> "none"]
    ELSE LET prompt == RatingPrompt(paper)
             r == filter_call_llm_by_model(prompt, model, RatingMaxTokens, envs2[a + 1])
             call == [i |-> i, attempt |-> a, call |-> Call(prompt, model, RatingMaxTokens)]
             m == ParseAndMerge(paper, r.ret.text)
             next == RateAttempts(paper, i, model, envs2, a + 1)
             retry == [next EXCEPT !.calls = <<call>> \o next.calls,
                                   !.sent = r.sent \o next.sent]
         IN IF r.raised # "none"
            THEN [paper |-> paper, calls |-> <<call>>, sent |-> r.sent,
                  success |-> FALSE, raised |-> r.raised]
            ELSE IF ~r.ret.some THEN retry
            ELSE IF m.exc = "none"
            THEN [paper |-> m.d, calls |-> <<call>>, sent |-> r.sent,
                  success |-> TRUE, raised |-> "none"]
            ELSE IF RateHandlers(m.exc) THEN retry
            ELSE [paper |-> paper, calls |-> <<call>>, sent |-> r.sent,
                  success |-> FALSE, raised |-> m.exc]

\* The loop over the papers from index i on; envs[j] is the pair of worlds of
\* the two attempts for paper j.  The list is updated in place and returned.
RECURSIVE RateLoop(_, _, _, _)
RateLoop(papers_, model, envs, i) ==
    IF i > Len(papers_)
    THEN [out |-> papers_, calls |-> <<>>, sent |-> <<>>, raised |-> "none"]
    ELSE LET one == RateAttempts(papers_[i], i, model, envs[i], 0)
             updated == [papers_ EXCEPT ![i] = one.paper]
         IN IF one.raised # "none"
            THEN [out |-> updated, calls |-> one.calls, sent |-> one.sent,
                  raised |-> one.raised]
            ELSE LET rest == RateLoop(updated, model, envs, i + 1)
                 IN [rest EXCEPT !.calls = one.calls \o rest.calls,
                                 !.sent = one.sent \o rest.sent]

rate_papers(papers_, model, envs) == RateLoop(papers_, model, envs, 1)

-----------------------------------------------------------------------------
(* main.py line 61: filtered_papers.sort(key=..., reverse=True) *)

SortKey(paper) == Get(paper, ScoreField, JInt(0))

\* a < b is defined between two numbers and between two strings
Comparable(a, b) == a.k = b.k /\ a.k \in {"int", "str"}

\* the position at which a paper with key x enters a descending list
InsertAtFirstNotGreater(sorted, x) ==
    LET I == {j \in 1..Len(sorted) : SortKey(sorted[j]).n <= x.n}
    IN IF I = {} THEN Len(sorted) + 1 ELSE Min(I)

InsertAt(sorted, x) ==
    LET I == {j \in 1..Len(sorted) : SortKey(sorted[j]).n < x.n}
    IN IF I = {} THEN Len(sorted) + 1 ELSE Min(I)

RECURSIVE SortDescending(_, _)
SortDescending(sorted, rest) ==
    IF rest = <<>> THEN sorted
    ELSE LET p == Head(rest)
             at == InsertAt(sorted, SortKey(p))
         IN SortDescending(SubSeq(sorted, 1, at - 1) \o <<p>> \o
                           SubSeq(sorted, at, Len(sorted)), Tail(rest))

\* list.sort: TypeError as soon as two keys cannot be compared
\* the list left as it is
NoSort(papers_) == [out |-> papers_, raised |-> "none"]

sort_by_priority(papers_) ==
    IF \E i, j \in 1..Len(papers_) :
           i # j /\ ~Comparable(SortKey(papers_[i]), SortKey(papers_[j]))
    THEN [out |-> papers_, raised |-> "TypeError"]
    ELSE [out |-> SortDescending(<<>>, papers_), raised |-> "none"]

-----------------------------------------------------------------------------
(* extract_summarize.py.  A URL is the sequence of its segments; a fetched   *)
(* article is known by the length of its stripped text.                      *)

MinArticleChars == 200
MAX_INPUT_CHARS == 100000
MAX_ARTICLE_TOKENS_TEXT_IMAGE == 20000
MAX_ARTICLE_TOKENS_TEXT == 10000

\* str.replace(a, b) on the segments of a URL
Replace(url, a, b) == [i \in 1..Len(url) |-> IF url[i] = a THEN b ELSE url[i]]

_derive_html_url(url) ==
    IF url = <<>> THEN NoneV ELSE Some(Replace(url, "/abs/", "/html/"))

\* a PDF URL derived from whatever the URL is
DerivePdfAlways(url) == Some(Replace(url, "/abs/", "/pdf/") \o <<".pdf">>)

_derive_pdf_url(url) ==
    IF url = <<>> THEN NoneV
    ELSE IF Contains(url, <<"/pdf/">>) /\ EndsWith(url, <<".pdf">>) THEN Some(url)
    ELSE LET pdf_url == Replace(url, "/abs/", "/pdf/")
         IN IF EndsWith(pdf_url, <<".pdf">>) THEN Some(pdf_url)
            ELSE Some(pdf_url \o <<".pdf">>)

\* What the outside world does while one paper is summarized.
\*   html : how the GET of the HTML page ends ("ok", "status_404", "error",
\*          "no_trafilatura")
\*   len  : the length of the stripped text extracted from the page
\*   pdf  : how the PDF download ends ("ok", "cached", "error")
\*   llm  : the world of the dispatcher call
SumEnv(html_, len, pdf, llm) == [html |-> html_, len |-> len, pdf |-> pdf, llm |-> llm]

NoArticle == [some |-> FALSE, len |-> 0]

\* a field of a paper that holds None where a string is expected
NoneStr == "<None>"

\* an article fetch that never finds text
FetchNothing(url, env) == [text |-> NoArticle, steps |-> <<"get_html">>]

\* _fetch_arxiv_html_text: the article text, and the GETs made
_fetch_arxiv_html_text(url, env) ==
    IF ~_derive_html_url(url).some THEN [text |-> NoArticle, steps |-> <<>>]
    ELSE IF env.html # "ok" THEN [text |-> NoArticle, steps |-> <<"get_html">>]
    ELSE IF env.len > MinArticleChars
    THEN [text |-> [some |-> TRUE, len |-> env.len], steps |-> <<"get_html">>]
    ELSE [text |-> NoArticle, steps |-> <<"get_html">>]

SystemText == <<"You are a helpful research assistant">>

\* the dispatcher call of one path, as extract_and_summarize makes it
SumCall(path, prompt, model, max_tokens, messages, attachments, excerpt_len) ==
    [path |-> path, prompt |-> prompt, model |-> model, max_tokens |-> max_tokens,
     messages |-> messages, attachments |-> attachments, excerpt_len |-> excerpt_len]

\* a download whose failures reach the caller
DownloadUncaught(pdf_url, env) ==
    IF env.pdf = "error" THEN [ret |-> NoneV, raised |-> "HTTPError"]
    ELSE [ret |-> Some(<<"tmp_pdfs">> \o pdf_url), raised |-> "none"]

\* lines 67-83: the local path of the cached or downloaded file; every
\* exception of the body is caught and None returned
_download_pdf(pdf_url, env) ==
    IF env.pdf \in {"ok", "cached"}
    THEN [ret |-> Some(<<"tmp_pdfs">> \o pdf_url), raised |-> "none"]
    ELSE [ret |-> NoneV, raised |-> "none"]

\* a summary written whatever the response
AlwaysSummary(paper, response) ==
    Update(paper, [llm_summary |-> Strip(response.text)])

\* the paper whatever the response
KeepPaper(paper, response) == paper

\* if response: paper["llm_summary"] = response.strip()
WithSummary(paper, response) ==
    IF Truthy(response) THEN Update(paper, [llm_summary |-> Strip(response.text)])
    ELSE paper

extract_and_summarize(paper, summarization_prompt, model, env) ==
    LET title == Get(paper, "title", "N/A")
        abstract == Get(paper, "summary", "")
        url == Get(paper, "url", <<>>)
        fetched == _fetch_arxiv_html_text(url, env)
        base_prompt == IF Truthy(summarization_prompt) THEN summarization_prompt.text
                       ELSE <<"Summarize the article in 5-7 bullet points.">>
        azure == StartsWith(model, AzurePrefix)
    IN IF fetched.text.some
       THEN LET excerpt_len == IF fetched.text.len < MAX_INPUT_CHARS
                               THEN fetched.text.len ELSE MAX_INPUT_CHARS
                messages ==
                    IF azure
                    THEN SomeMessages(<<
                            [role |-> "system", content |-> <<Part("text", SystemText)>>],
                            [role |-> "user", content |-> <<
                                Part("text", base_prompt),
                                Part("text", <<"Paper title:", title>>),
                                Part("text", <<"Article text:", "excerpt">>)>>]>>)
                    ELSE NoMessages
                prompt == IF azure THEN NoneV
                          ELSE Some(base_prompt \o <<"Paper title:", title,
                                                     "Article text:", "excerpt">>)
                r == call_llm_by_model(prompt, model, MAX_ARTICLE_TOKENS_TEXT,
                                       messages, <<>>, env.llm)
            IN [paper |-> IF r.raised = "none" THEN WithSummary(paper, r.ret) ELSE paper,
                steps |-> fetched.steps \o <<"llm_text">>,
                calls |-> <<SumCall("text", prompt, model, MAX_ARTICLE_TOKENS_TEXT,
                                    messages, <<>>, excerpt_len)>>,
                sent |-> r.sent,
                raised |-> r.raised]
       ELSE LET pdf_url == _derive_pdf_url(url)
            IN IF ~pdf_url.some
               THEN [paper |-> paper, steps |-> fetched.steps, calls |-> <<>>,
                     sent |-> <<>>, raised |-> "none"]
               ELSE IF _download_pdf(pdf_url.text, env).raised # "none"
               THEN [paper |-> paper, steps |-> fetched.steps \o <<"download_pdf">>,
                     calls |-> <<>>, sent |-> <<>>,
                     raised |-> _download_pdf(pdf_url.text, env).raised]
               ELSE IF abstract = NoneStr   \* abstract[:2000] on None
               THEN [paper |-> paper, steps |-> fetched.steps \o <<"download_pdf">>,
                     calls |-> <<>>, sent |-> <<>>, raised |-> "TypeError"]
               ELSE LET context_text == <<"Paper title:", title, "Abstract (from arXiv):",
                                          abstract, "PDF URL:">> \o pdf_url.text
                        messages ==
                            IF azure
                            THEN SomeMessages(<<
                                    [role |-> "system",
                                     content |-> <<Part("text", SystemText)>>],
                                    [role |-> "user", content |-> <<
                                        Part("text", base_prompt),
                                        Part("text", context_text)>>]>>)
                            ELSE NoMessages
                        attachments ==
                            IF azure THEN <<>>
                            ELSE <<[type |-> "file", url |-> pdf_url.text,
                                    mime |-> "application/pdf"]>>
                        prompt == IF azure THEN NoneV ELSE Some(base_prompt \o context_text)
                        r == call_llm_by_model(prompt, model,
                                               MAX_ARTICLE_TOKENS_TEXT_IMAGE, messages,
                                               attachments, env.llm)
                    IN [paper |-> IF r.raised = "none" THEN WithSummary(paper, r.ret)
                                  ELSE paper,
                        steps |-> fetched.steps \o <<"download_pdf", "llm_pdf">>,
                        calls |-> <<SumCall("pdf", prompt, model,
                                            MAX_ARTICLE_TOKENS_TEXT_IMAGE, messages,
                                            attachments, 0)>>,
                        sent |-> r.sent,
                        raised |-> r.raised]

-----------------------------------------------------------------------------
(* Fixtures: papers as the feed returns them, model identifiers, replies *)

Titles == <<"T1", "T2", "T3", "T4", "T5", "T6">>
AbsUrl == <<"https://arxiv.org", "/abs/", "2401.1">>

Paper(i) ==
    [id |-> i, title |-> Titles[i], summary |-> "S", url |-> AbsUrl,
     published_date |-> [k |-> "datetime", n |-> i]]
PaperList(n) == [i \in 1..n |-> Paper(i)]

\* a paper whose abstract the feed gave as None
NoAbstractPaper == [Paper(2) EXCEPT !.summary = NoneStr]

ModelMarket == <<"g">>
ModelAzure == AzurePrefix \o <<"x">>
\* a marketplace model whose name holds "azure-" after its first character
ModelInfix == <<"m">> \o AzurePrefix \o <<"x">>

YesDot == <<"Y", "e", "s", ".">>
Junk == <<"junk">>
PlainObject == <<"{score: 9}">>

\* worlds in which the dispatcher call returns text t, and fails
EnvReply(t) == Env(TRUE, TRUE, "ok", t, "text")
EnvFail == Env(TRUE, TRUE, "timeout", <<>>, "raise")
EnvNoKey == Env(FALSE, FALSE, "ok", Yes, "text")

\* the result slot of the function-level specifications
Pending == [done |-> FALSE]
Done(r) == [done |-> TRUE, r |-> r]

-----------------------------------------------------------------------------
(* main.py: the orchestrator.  A RunKey is a (date, feed) pair; its artifact  *)
(* is the file daily_json/<feed>/<date>.json.  main() runs in stages, one     *)
(* action each; calls logs what it has called so far.                         *)

BackfillDays == 3
MaxRuns == 2

Feeds == {"cs.CV", "cs.RO"}
Dates == 1..BackfillDays
Keys == [date : Dates, feed : Feeds]

\* a file of daily_json: absent, created but empty, cut short, or holding the
\* dumped list
Absent == [state |-> "absent", data |-> <<>>]
EmptyFile == [state |-> "empty", data |-> <<>>]
PartialFile == [state |-> "partial", data |-> <<>>]
Complete(list) == [state |-> "complete", data |-> list]

NoKey == [date |-> 0, feed |-> "none"]
\* the invocation under way: its RunKey, the file found at entry, whether the
\* previous invocation had the same RunKey and how that one ended, what the
\* feed returned, the exception leaving main
\* the ids of the papers the filter retained, how the index update ended
NoCur == [key |-> NoKey, start |-> "absent", hit |-> FALSE, repeat |-> "no",
          fetched |-> "none", exc |-> "none", retained |-> <<>>, index |-> "none",
          save |-> "none", render |-> "none", n |-> 0]
NoPrev == [key |-> NoKey, artifact |-> FALSE, fetched |-> "none", save |-> "none"]
CliOff == [state |-> "off", feed |-> "none", left |-> <<>>, attempted |-> <<>>,
           status |-> "none", created |-> FALSE, config_feed |-> "<None>"]

OrchInit ==
    /\ fs = [k \in Keys |-> Absent]
    /\ html = {}
    /\ reports = NoneV
    /\ pc = "idle"
    /\ cur = NoCur
    /\ papers = <<>>
    /\ calls = <<>>
    /\ cli = CliOff
    /\ runs = 0
    /\ prev = NoPrev

\* os.path.exists
Exists(file) == file.state # "absent"

CacheNever(file) == FALSE

CacheNonEmpty(file) == file.state \notin {"absent", "empty"}

\* if os.path.exists(json_filepath): the cache check
CacheHit(file) == file.state # "absent"

\* entry of main(target_date, provider_feed): the cache check of lines 36-41
Enter(k) ==
    /\ pc = "idle"
    /\ cur' = [key |-> k, start |-> fs[k].state, hit |-> CacheHit(fs[k]),
               repeat |-> IF prev.key # k THEN "no"
                          ELSE IF prev.fetched = "empty" THEN "after_empty_feed"
                          ELSE IF prev.artifact THEN "after_artifact"
                          ELSE "after_failure",
               fetched |-> "none", exc |-> "none", retained |-> <<>>,
               index |-> "none", save |-> "none", render |-> "none", n |-> 0]
    /\ pc' = IF CacheHit(fs[k]) THEN "render" ELSE "fetch"
    /\ papers' = <<>>
    /\ calls' = <<>>
    /\ runs' = runs + 1

\* the RunKeys of direct calls: the latest date for every feed, the date before
\* it for the default feed
DefaultFeed == "cs.CV"
DirectKeys ==
    {k \in Keys : k.date = BackfillDays \/
                  (k.date = BackfillDays - 1 /\ k.feed = DefaultFeed)}

\* main() called by a program that imports it
DirectCall ==
    /\ cli.state = "off"
    /\ runs < MaxRuns
    /\ \E k \in DirectKeys : Enter(k)
    /\ UNCHANGED <<fs, html, reports, cli, prev, fin, fout>>

\* what the feed returns: no record, or two papers, the second without
\* abstract
FeedResults == {<<>>, <<Paper(1), NoAbstractPaper>>}

\* if not raw_papers: return
NeverAbort(raw_papers) == FALSE

NoPapers(raw_papers) == raw_papers = <<>>

\* step 1: fetch_papers, lines 45-49
Fetch ==
    /\ pc = "fetch"
    /\ \E raw_papers \in FeedResults :
          /\ papers' = raw_papers
          /\ cur' = [cur EXCEPT !.fetched = IF raw_papers = <<>> THEN "empty" ELSE "some",
                                !.n = Len(raw_papers)]
          /\ pc' = IF NoPapers(raw_papers) THEN "done" ELSE "filter"
    /\ calls' = Append(calls, "fetch_papers")
    /\ UNCHANGED <<fs, html, reports, cli, runs, prev, fin, fout>>

DefaultTopic == "general image/video/multimodal generation or image/video editing"
MainModel == ModelMarket

\* truth value of a str-or-None argument: None and "" are false
StrTruthy(str) == str # NoneStr /\ str # ""

\* the config argument: None, or a Config with its two prompt attributes
NoConfig == [present |-> FALSE, filter_prompt |-> NoneStr,
             summarization_prompt |-> NoneStr]
ConfigOf(filter_prompt, summarization_prompt) ==
    [present |-> TRUE, filter_prompt |-> filter_prompt,
     summarization_prompt |-> summarization_prompt]

\* a topic that is the config's only when both prompts are set
TopicNeedsWholeConfig(filter_prompt_override, config) ==
    IF StrTruthy(filter_prompt_override) THEN filter_prompt_override
    ELSE IF config.present /\ StrTruthy(config.filter_prompt)
            /\ StrTruthy(config.summarization_prompt)
    THEN config.filter_prompt
    ELSE DefaultTopic

\* line 50
topic_for_filter(filter_prompt_override, config) ==
    IF StrTruthy(filter_prompt_override) THEN filter_prompt_override
    ELSE IF config.present /\ StrTruthy(config.filter_prompt) THEN config.filter_prompt
    ELSE DefaultTopic

\* line 68; large_model is an optional model identifier
summarization_model(large_model, model) ==
    IF Truthy(large_model) THEN large_model.text ELSE model

\* the log entries of n dispatcher calls of one stage
Logged(stage, n) == [i \in 1..n |-> stage]

\* the worlds of the filter calls of one run, by paper
MainFilterEnvs ==
    {<<EnvReply(YesDot), EnvReply(YesDot)>>, <<EnvFail, EnvReply(YesDot)>>,
     <<EnvFail, EnvFail>>}

\* the worlds of the first n calls
FirstN(envs, n) == [i \in 1..n |-> envs[i]]

\* step 2: filter_papers_by_topic, lines 50-58
Filter ==
    /\ pc = "filter"
    /\ \E envs \in MainFilterEnvs :
          LET r == filter_papers_by_topic(papers, topic_for_filter(NoneStr, NoConfig),
                                          MainModel, FirstN(envs, Len(papers)))
          IN /\ papers' = r.out
             /\ calls' = calls \o <<"filter_papers_by_topic">> \o
                         Logged("llm:filter", Len(r.calls))
             /\ cur' = [cur EXCEPT !.exc = r.raised,
                                   !.retained = [i \in 1..Len(r.out) |-> r.out[i].id]]
             /\ pc' = IF r.raised = "none" THEN "rate" ELSE "done"
    /\ UNCHANGED <<fs, html, reports, cli, runs, prev, fin, fout>>

StringScoreObject == <<"{score: '9'}">>

RatedSecond == <<EnvReply(Junk), EnvReply(PlainObject)>>
Unrated == <<EnvFail, EnvFail>>
RatedString == <<EnvReply(StringScoreObject), EnvFail>>

\* the worlds of the rating attempts of one run, by paper
MainRateEnvs ==
    {<<Unrated, RatedSecond>>, <<RatedString, RatedSecond>>, <<RatedSecond, Unrated>>}

\* rate_papers, line 59
Rate ==
    /\ pc = "rate"
    /\ \E envs \in MainRateEnvs :
          LET r == rate_papers(papers, MainModel, FirstN(envs, Len(papers)))
          IN /\ papers' = r.out
             /\ calls' = calls \o <<"rate_papers">> \o Logged("llm:rate", Len(r.calls))
             /\ cur' = [cur EXCEPT !.exc = r.raised]
             /\ pc' = IF r.raised = "none" THEN "sort" ELSE "done"
    /\ UNCHANGED <<fs, html, reports, cli, runs, prev, fin, fout>>

\* a stage after the sort that sends main back to rating
BackToRate(filtered_papers) == "rate"

\* a return when no paper was retained
ReturnWhenNoneRetained(filtered_papers) ==
    IF filtered_papers = <<>> THEN "done" ELSE "summarize"

\* lines 62-65: with no paper retained main logs a warning and goes on to
\* save the empty list
AfterSort(filtered_papers) == "summarize"

\* the sort of line 61; a TypeError leaves main
Sort ==
    /\ pc = "sort"
    /\ LET r == sort_by_priority(papers)
       IN /\ papers' = r.out
          /\ cur' = [cur EXCEPT !.exc = r.raised]
          /\ pc' = IF r.raised = "none" THEN AfterSort(r.out) ELSE "done"
    /\ UNCHANGED <<fs, html, reports, calls, cli, runs, prev, fin, fout>>

DefaultSummaryPrompt == Some(<<"Summarize the attached paper succinctly.">>)

\* line 69
sum_prompt(config) ==
    IF config.present /\ StrTruthy(config.summarization_prompt)
    THEN Some(<<config.summarization_prompt>>)
    ELSE DefaultSummaryPrompt

\* the worlds of the summarization of one run, by paper
MainSumEnvs ==
    {<<SumEnv("status_404", 0, "error", EnvFail),
       SumEnv("ok", 5000, "ok", EnvReply(<<"summary", "\n">>))>>}

\* the loop of lines 71-75 from index i on: an exception of
\* extract_and_summarize is caught and the paper kept as it is
RECURSIVE SummarizeLoop(_, _, _, _, _)
SummarizeLoop(list, prompt, model, envs, i) ==
    IF i > Len(list) THEN [out |-> list, calls |-> <<>>]
    ELSE LET one == extract_and_summarize(list[i], prompt, model, envs[i])
             kept == IF one.raised = "none" THEN [list EXCEPT ![i] = one.paper] ELSE list
             rest == SummarizeLoop(kept, prompt, model, envs, i + 1)
         IN [out |-> rest.out,
             calls |-> <<"extract_and_summarize">> \o
                       Logged("llm:summarize", Len(one.calls)) \o
                       (IF one.raised = "none" THEN <<>> ELSE <<"summarization_failed">>) \o
                       rest.calls]

\* step 2.5: summarize, lines 67-75
Summarize ==
    /\ pc = "summarize"
    /\ \E envs \in MainSumEnvs :
          LET r == SummarizeLoop(papers, sum_prompt(NoConfig),
                                 summarization_model(NoneV, MainModel),
                                 FirstN(envs, Len(papers)), 1)
          IN /\ papers' = r.out
             /\ calls' = calls \o r.calls
    /\ pc' = "save"
    /\ UNCHANGED <<fs, html, reports, cur, cli, runs, prev, fin, fout>>

\* lines 82-86: datetime fields become ISO strings
IsoDate(v) == IF v.k = "datetime" THEN [k |-> "iso", n |-> v.n] ELSE v

IsoDates(paper) ==
    [f \in DOMAIN paper |->
        IF f \in {"published_date", "updated_date"} THEN IsoDate(paper[f]) ELSE paper[f]]

\* how saving ends: the directory cannot be made (the OSError leaves main), the
\* file cannot be opened, the dump fails after the file was created, it works
SaveOutcomes == {"ok", "mkdir_error", "open_error", "dump_error_empty", "dump_error_partial"}

\* a file name made of the date alone, in one directory for all feeds
FlatPath(k) == <<"daily_json", k.date, ".json">>

\* lines 30-33: daily_json/<provider_feed>/<target_date.isoformat()>.json
json_filepath(k) == <<"daily_json", k.feed, k.date, ".json">>

\* step 3: save, lines 77-98
Save ==
    /\ pc = "save"
    /\ LET list == [i \in 1..Len(papers) |-> IsoDates(papers[i])]
       IN \E outcome \in SaveOutcomes :
          /\ papers' = list
          /\ fs' = [k \in Keys |->
                      IF json_filepath(k) # json_filepath(cur.key) THEN fs[k]
                      ELSE CASE outcome = "ok" -> Complete(list)
                             [] outcome = "dump_error_empty" -> EmptyFile
                             [] outcome = "dump_error_partial" -> PartialFile
                             [] OTHER -> fs[k]]
          /\ cur' = [cur EXCEPT !.exc = IF outcome = "mkdir_error" THEN "OSError" ELSE "none",
                                !.save = outcome]
          /\ pc' = IF outcome = "ok" THEN "render" ELSE "done"
    /\ UNCHANGED <<html, reports, calls, cli, runs, prev, fin, fout>>

\* how rendering ends: the output directory cannot be made (the OSError leaves
\* main), the template is missing, the renderer raises, it works
RenderOutcomes == {"ok", "mkdir_error", "template_not_found", "error"}

\* what generate_html_from_json raises
RenderException(outcome) ==
    CASE outcome = "template_not_found" -> "FileNotFoundError"
      [] outcome = "error" -> "RuntimeError"
      [] OTHER -> "none"

\* a try block with the one clause except FileNotFoundError
RenderHandlersTemplateOnly(exc) == exc = "FileNotFoundError"

\* the except clauses of lines 138-141: FileNotFoundError, Exception
RenderHandlers(exc) == exc = "FileNotFoundError" \/ exc \in ExceptionClasses

\* step 4: generate_html_from_json, lines 100-116 and 138-141
Render ==
    /\ pc = "render"
    /\ IF ~Exists(fs[cur.key])
       THEN /\ pc' = "done"
            /\ UNCHANGED <<html, calls, cur>>
       ELSE \E outcome \in RenderOutcomes :
            /\ html' = IF outcome = "ok" THEN html \cup {cur.key} ELSE html
            /\ calls' = IF outcome = "mkdir_error" THEN calls
                        ELSE Append(calls, "generate_html_from_json")
            /\ cur' = [cur EXCEPT
                         !.exc = IF outcome = "mkdir_error" THEN "OSError"
                                 ELSE IF RenderHandlers(RenderException(outcome))
                                 THEN "none" ELSE RenderException(outcome),
                         !.render = outcome]
            /\ pc' = IF outcome = "ok" THEN "index" ELSE "done"
    /\ UNCHANGED <<fs, reports, papers, cli, runs, prev, fin, fout>>

\* the rendered files of a feed, latest date first
RECURSIVE Descending(_)
Descending(S) ==
    IF S = {} THEN <<>>
    ELSE LET top == CHOOSE k \in S : \A other \in S : other.date <= k.date
         IN <<top>> \o Descending(S \ {top})

\* how the index update ends: written, the output directory is gone, the
\* write fails
IndexOutcomes == {"ok", "dir_missing", "error"}

\* step 5: reports.json, lines 118-136
Index ==
    /\ pc = "index"
    /\ \E outcome \in IndexOutcomes :
          /\ html' = IF outcome = "dir_missing"
                     THEN {k \in html : k.feed # cur.key.feed} ELSE html
          /\ reports' =
                CASE outcome = "ok" ->
                        Some(Descending({k \in html : k.feed = cur.key.feed}))
                  [] outcome = "dir_missing" -> Some(<<>>)
                  [] OTHER -> reports
          /\ cur' = [cur EXCEPT !.index = outcome]
    /\ calls' = Append(calls, "write_reports_json")
    /\ pc' = "done"
    /\ UNCHANGED <<fs, papers, cli, runs, prev, fin, fout>>

\* main() returns, or an exception leaves it and ends the command line run
Return ==
    /\ pc = "done"
    /\ pc' = "idle"
    /\ prev' = [key |-> cur.key, artifact |-> Exists(fs[cur.key]), fetched |-> cur.fetched,
                save |-> cur.save]
    /\ papers' = <<>>
    /\ calls' = <<>>
    /\ cur' = NoCur
    /\ cli' = IF cli.state = "running" /\ cur.exc # "none"
              THEN [cli EXCEPT !.state = "crashed"] ELSE cli
    /\ UNCHANGED <<fs, html, reports, runs, fin, fout>>

Stage == Fetch \/ Filter \/ Rate \/ Sort \/ Summarize \/ Save \/ Render \/ Index \/ Return

Init == OrchInit /\ fin = [fn |-> "none"] /\ fout = Pending

Next == DirectCall \/ Stage

Spec == Init /\ [][Next]_vars

\* --- the command line, lines 145-215 ---

\* the dates run_date - 2, run_date - 1, run_date of a run whose run_date is
\* the latest date
BackfillDates == [i \in 1..BackfillDays |-> i]

\* filter.py line 15, imported by main.py line 9
DEFAULT_MODEL_NAME == ModelMarket

\* the command line: each option is NoneV when it is not given, Some(value)
\* when it is
Argv(date, provider_feed, config, small, large) ==
    [date |-> date, provider_feed |-> provider_feed, config |-> config,
     small_language_model |-> small, large_language_model |-> large]

\* the defaults of add_argument, lines 147-181
ArgDefault(option, default) == IF option.some THEN option.text ELSE default

\* parser.parse_args(), line 183: --date and --config stay None when not given
parse_args(argv) ==
    [date |-> argv.date,
     provider_feed |-> ArgDefault(argv.provider_feed, "cs.CV"),
     config |-> argv.config,
     small_language_model |-> ArgDefault(argv.small_language_model, DEFAULT_MODEL_NAME),
     large_language_model |-> ArgDefault(argv.large_language_model, DEFAULT_MODEL_NAME)]

\* the folder config/<name> on disk: whether it exists with its two prompt
\* files, the provider_feed of its config.yaml (the string for None when the
\* file is missing), and whether the disk lets it be written
NoFolder == [exists |-> FALSE, yaml |-> NoneStr, writable |-> TRUE]
ReadOnlyDisk == [exists |-> FALSE, yaml |-> NoneStr, writable |-> FALSE]
Folder(feed) == [exists |-> TRUE, yaml |-> feed, writable |-> TRUE]

\* config.py lines 27-57: the folder and every missing file are created, the
\* missing config.yaml with provider_feed: category_default
_ensure_defaults(folder, category_default) ==
    [folder EXCEPT !.exists = TRUE,
                   !.yaml = IF folder.yaml = NoneStr THEN category_default ELSE @]

\* config.py lines 14-24 and 60-63: Config(PROJECT_ROOT, name, category_default)
\* for a name that is not empty; os.makedirs or open raises on a disk that
\* cannot be written
Config_init(folder, category_default) ==
    IF ~folder.writable
    THEN [raised |-> TRUE, folder |-> folder, provider_feed |-> NoneStr]
    ELSE LET made == _ensure_defaults(folder, category_default)
         IN [raised |-> FALSE, folder |-> made, provider_feed |-> made.yaml]

\* datetime.strptime(text, '%Y-%m-%d') raises ValueError
ValidDate == <<2025, 6, 3>>
BadMonthDate == <<2025, 13, 45>>
strptime_ok(d) == d[2] \in 1..12 /\ d[3] \in 1..31

\* lines 183-207: the arguments are parsed, the config is initialised when
\* --config names one (an exception leaves config = None), and only then is
\* --date parsed, exit(1) ending the process when it does not parse
cli_startup(argv, folder) ==
    LET args == parse_args(argv)
        init == IF Truthy(args.config) THEN Config_init(folder, args.provider_feed)
                ELSE [raised |-> TRUE, folder |-> folder, provider_feed |-> NoneStr]
        date_ok == ~Truthy(args.date) \/ strptime_ok(args.date.text)
    IN [args |-> args,
        config |-> Truthy(args.config) /\ ~init.raised,
        config_feed |-> init.provider_feed,
        folder |-> init.folder,
        status |-> IF date_ok THEN "none" ELSE "exit(1)"]

\* the keyword arguments of the three main(...) calls, lines 213-215
main_kwargs(start) ==
    [provider_feed |-> start.args.provider_feed,
     model |-> start.args.small_language_model,
     large_model |-> Some(start.args.large_language_model),
     config |-> start.config]

\* the command lines and the config folders of the runs of the script
CliDates == {NoneV, Some(ValidDate), Some(BadMonthDate)}
CliFeeds == {NoneV, Some("cs.RO")}
CliConfigs == {NoneV, Some(<<"robotics_vlm_vla">>)}
CliFolders == {NoFolder, Folder("cs.RO")}

\* python -m src.main ...: a date that does not parse ends the process with
\* exit(1) before any main() call
CliStart ==
    /\ cli.state = "off" /\ pc = "idle" /\ runs = 0
    /\ \E date \in CliDates, feed \in CliFeeds, config \in CliConfigs,
          folder \in CliFolders :
          LET start == cli_startup(Argv(date, feed, config, NoneV, NoneV), folder)
              ok == start.status = "none"
          IN cli' = [state |-> IF ok THEN "running" ELSE "usage_error",
                     feed |-> main_kwargs(start).provider_feed,
                     left |-> IF ok THEN BackfillDates ELSE <<>>,
                     attempted |-> <<>>,
                     status |-> start.status,
                     created |-> start.folder # folder,
                     config_feed |-> start.config_feed]
    /\ UNCHANGED <<fs, html, reports, pc, cur, papers, calls, runs, prev, fin, fout>>

\* the next of the three main(...) calls of lines 213-215
CliCall ==
    /\ cli.state = "running" /\ cli.left # <<>>
    /\ Enter([date |-> Head(cli.left), feed |-> cli.feed])
    /\ cli' = [cli EXCEPT !.left = Tail(@), !.attempted = Append(@, Head(cli.left))]
    /\ UNCHANGED <<fs, html, reports, prev, fin, fout>>

\* the script ends after the third call has returned
CliExit ==
    /\ cli.state = "running" /\ cli.left = <<>> /\ pc = "idle"
    /\ cli' = [cli EXCEPT !.state = "exited"]
    /\ UNCHANGED <<fs, html, reports, pc, cur, papers, calls, runs, prev, fin, fout>>

NextCLI == CliStart \/ CliCall \/ CliExit \/ Stage

SpecCLI == Init /\ [][NextCLI]_vars

-----------------------------------------------------------------------------
(* Properties of the orchestrator.                                           *)

\* the invocation under way has called name
Called(name) == \E i \in 1..Len(calls) : calls[i] = name

\* the invocation under way has reached none of fetch, filter, rate, summarize
SkipsPipeline ==
    /\ pc \notin {"fetch", "filter", "rate", "sort", "summarize", "save"}
    /\ \A name \in {"fetch_papers", "filter_papers_by_topic", "rate_papers",
                     "extract_and_summarize"} : ~Called(name)

\* C1, as the code has it: when main is invoked twice in sequence for the same
\* (date, feed) and the first invocation left a file at the artifact's place,
\* the second invocation makes no call to fetch_papers, filter_papers_by_topic,
\* rate_papers or extract_and_summarize.
C1_SecondRunSkipsPipeline ==
    cur.repeat = "after_artifact" => SkipsPipeline

\* C1 as stated: whenever main is invoked twice in sequence for the same
\* (date, feed), whatever the first invocation left, the second makes no call
\* to fetch_papers, filter_papers_by_topic, rate_papers or
\* extract_and_summarize.
C1_AnySecondRunSkipsPipeline ==
    cur.repeat # "no" => SkipsPipeline

\* a second invocation in a row for a RunKey whose artifact the first one
\* wrote has finished, having called the renderer only
C1_Witness ==
    /\ pc = "done"
    /\ cur.repeat = "after_artifact"
    /\ cur.start = "complete"
    /\ calls = <<"generate_html_from_json", "write_reports_json">>

\* C2 as stated: main takes the cache-hit path (no fetch, filter, rate,
\* summarize; straight to rendering) if and only if a file exists at the
\* artifact's place and is non-empty; an existing empty file is a cache miss.
C2_HitIffNonEmptyArtifact ==
    pc # "idle" => (SkipsPipeline <=> cur.start \in {"partial", "complete"})

\* C3: on a cache miss with a feed that returns no record, main ends having
\* called the feed client only (no filter, rate, summarize, renderer) and
\* leaves no file at the artifact's place; the next invocation for the same
\* (date, feed) is a cache miss again and calls the feed client first.
C3_EmptyFeedLeavesNoArtifact ==
    /\ (pc = "done" /\ cur.fetched = "empty") =>
          /\ calls = <<"fetch_papers">>
          /\ fs[cur.key] = Absent
          /\ cur.exc = "none"
    /\ (pc # "idle" /\ cur.repeat = "after_empty_feed") =>
          /\ cur.start = "absent"
          /\ pc = "fetch" \/ (calls # <<>> /\ calls[1] = "fetch_papers")

\* the invocation after one that got an empty feed, for the same RunKey, has
\* fetched again, got papers and saved them
C3_Witness ==
    /\ cur.repeat = "after_empty_feed"
    /\ pc = "render"
    /\ calls[1] = "fetch_papers"
    /\ fs[cur.key].state = "complete"

\* C4: once a file exists at the artifact's place of a (date, feed), no step
\* of any invocation, for whatever date and feed, changes, truncates or
\* removes it.
C4_ArtifactWriteOnce ==
    [][\A k \in Keys : Exists(fs[k]) => fs'[k] = fs[k]]_vars

\* an invocation found the artifact of its RunKey, a list of papers written
\* by the invocation before it, and has finished
C4_Witness ==
    /\ pc = "done"
    /\ cur.repeat = "after_artifact"
    /\ cur.start = "complete"
    /\ fs[cur.key].data # <<>>

\* C5 as stated: a command line run that got past its arguments has, when the
\* process ends, invoked main for all three dates run_date-2, run_date-1,
\* run_date, whatever failed while one of them was processed.
C5_BackfillAttemptsAllDates ==
    cli.state \in {"exited", "crashed"} => cli.attempted = BackfillDates

-----------------------------------------------------------------------------
(* Function-level specifications: Init draws the arguments and the worlds of *)
(* the calls, the one action applies the function.                          *)

\* --- filter_papers_by_topic ---
FilterMaxPapers == 3

NoText == <<"n", "o">>
YesPlease == <<"Y", "E", "S", " ", "p", "l", "e", "a", "s", "e">>
Eyes == <<"e", "y", "e", "s">>
SpacedYes == <<"y", " ", "e", "s">>
YesNewline == <<" ", "y", "e", "s", "\n">>

FilterReplyTexts == {YesDot, NoText, YesPlease, Eyes, SpacedYes, YesNewline, <<>>}
FilterEnvs == {EnvReply(t) : t \in FilterReplyTexts} \cup {EnvFail, EnvNoKey}

FilterInit ==
    /\ OrchInit
    /\ \E n \in 0..FilterMaxPapers, model \in {ModelMarket, ModelAzure} :
         \E envs \in [1..n -> FilterEnvs] :
            fin = [fn |-> "filter", papers |-> PaperList(n), topic |-> "topic",
                   model |-> model, envs |-> envs]
    /\ fout = Pending

ApplyFilter ==
    /\ fin.fn = "filter" /\ ~fout.done
    /\ fout' = Done(filter_papers_by_topic(fin.papers, fin.topic, fin.model, fin.envs))
    /\ UNCHANGED <<fin, orchVars>>

SpecFilter == FilterInit /\ [][ApplyFilter]_vars

\* the j-th smallest element of a set of numbers
Nth(S, j) == CHOOSE i \in S : Cardinality({x \in S : x < i}) = j - 1

\* the reply to the call for paper i contains y, e, s in a row in any case
RepliedYes(i) ==
    LET r == filter_call_llm_by_model(FilterPrompt(fin.topic, fin.papers[i]),
                                      fin.model, FilterMaxTokens, fin.envs[i]).ret
    IN /\ r.some
       /\ \E k \in 1..(Len(r.text) - 2) :
             /\ r.text[k] \in {"y", "Y"}
             /\ r.text[k + 1] \in {"e", "E"}
             /\ r.text[k + 2] \in {"s", "S"}

\* C7: filter_papers_by_topic makes exactly one dispatcher call per input
\* paper, in input order, each with the one-word budget, and returns exactly
\* the papers whose reply, lower-cased, contains "yes", unchanged and in their
\* input order; any other reply and a failed dispatch drop the paper.
C7_FilterKeepsYesSubsequence ==
    (fin.fn = "filter" /\ fout.done) =>
        LET n == Len(fin.papers)
            kept == {i \in 1..n : RepliedYes(i)}
            out == fout.r.out
        IN /\ fout.r.raised = "none"
           /\ Len(fout.r.calls) = n
           /\ \A i \in 1..n :
                 fout.r.calls[i] =
                     Call(FilterPrompt(fin.topic, fin.papers[i]), fin.model, 5)
           /\ Len(out) = Cardinality(kept)
           /\ \A j \in 1..Len(out) : out[j] = fin.papers[Nth(kept, j)]

\* three papers with replies "Yes.", "no", "YES please": the first and the
\* third are retained, in that order
C7_Witness ==
    /\ fin.fn = "filter" /\ fout.done
    /\ Len(fin.papers) = 3
    /\ fin.envs = <<EnvReply(YesDot), EnvReply(NoText), EnvReply(YesPlease)>>
    /\ fin.model = ModelMarket
    /\ fout.r.out = <<Paper(1), Paper(3)>>

-----------------------------------------------------------------------------
\* --- rate_papers ---
RateMaxPapers == 2

FencedObject == <<"Here:", "\n", "[fence json]", "\n", "{score: 5}", "\n", "[fence]">>
BareNumber == <<"5">>
EmptyList == <<"[]">>

\* the replies that are one JSON object, bare or inside a json fence, and the
\* fields each carries
ObjectReplies == {PlainObject, FencedObject}
FieldsOf(t) ==
    IF t = PlainObject THEN [overall_priority_score |-> JInt(9), tldr |-> "t"]
    ELSE [overall_priority_score |-> JInt(5), tldr |-> "t"]

RateReplyTexts == {Junk, PlainObject, FencedObject, BareNumber, EmptyList}
RateEnvs == {EnvReply(t) : t \in RateReplyTexts} \cup {EnvFail}

RateInit ==
    /\ OrchInit
    /\ \E n \in 0..RateMaxPapers :
         \E envs \in [1..n -> [1..2 -> RateEnvs]] :
            fin = [fn |-> "rate", papers |-> PaperList(n), model |-> ModelMarket,
                   envs |-> envs]
    /\ fout = Pending

ApplyRate ==
    /\ fin.fn = "rate" /\ ~fout.done
    /\ fout' = Done(rate_papers(fin.papers, fin.model, fin.envs))
    /\ UNCHANGED <<fin, orchVars>>

SpecRate == RateInit /\ [][ApplyRate]_vars

\* the dispatcher calls rate_papers made for paper i
CallsFor(i) == {c \in 1..Len(fout.r.calls) : fout.r.calls[c].i = i}

\* attempt a (1 or 2) for paper i is answered by one JSON object / by
\* malformed text or a failed dispatch
ObjectReply(i, a) == fin.envs[i][a].http = "ok" /\ fin.envs[i][a].body \in ObjectReplies
MalformedReply(i, a) == fin.envs[i][a].http # "ok" \/ fin.envs[i][a].body = Junk

RatingFields == {"overall_priority_score", "tldr"}

\* C8: rate_papers makes at most 2 dispatcher attempts per paper and stops at
\* the first successful one: first reply a valid object -> exactly 1 call and
\* the fields merged; first malformed (or failed) and second valid -> exactly
\* 2 calls and the fields of the second reply merged; both malformed or
\* failed -> exactly 2 calls and the paper unchanged, without rating fields.
C8_RateRetriesOnce ==
    (fin.fn = "rate" /\ fout.done) =>
        \A i \in 1..Len(fin.papers) :
            LET ncalls == Cardinality(CallsFor(i))
                p == fout.r.out[i]
            IN /\ ncalls <= 2
               /\ ObjectReply(i, 1) =>
                     /\ ncalls = 1
                     /\ p = Update(fin.papers[i], FieldsOf(fin.envs[i][1].body))
               /\ (MalformedReply(i, 1) /\ ObjectReply(i, 2)) =>
                     /\ ncalls = 2
                     /\ p = Update(fin.papers[i], FieldsOf(fin.envs[i][2].body))
               /\ (MalformedReply(i, 1) /\ MalformedReply(i, 2)) =>
                     /\ ncalls = 2
                     /\ p = fin.papers[i]
                     /\ DOMAIN p \cap RatingFields = {}

\* one paper: malformed text first, a valid object second; another paper whose
\* two replies are malformed
C8_Witness ==
    /\ fin.fn = "rate" /\ fout.done
    /\ Len(fin.papers) = 2
    /\ fin.envs[1] = <<EnvReply(Junk), EnvReply(PlainObject)>>
    /\ fin.envs[2] = <<EnvReply(Junk), EnvFail>>
    /\ Len(fout.r.calls) = 4
    /\ fout.r.out[1].overall_priority_score = JInt(9)
    /\ fout.r.out[2] = Paper(2)

\* C9: a rating failure never aborts the batch: whatever the replies (failed
\* dispatch, malformed text, JSON that is not an object), rate_papers raises
\* nothing, attempts every paper in input order and returns the list with the
\* same length and order.
C9_RateNeverAborts ==
    (fin.fn = "rate" /\ fout.done) =>
        LET n == Len(fin.papers)
            cs == fout.r.calls
        IN /\ fout.r.raised = "none"
           /\ Len(fout.r.out) = n
           /\ \A i \in 1..n : fout.r.out[i].id = fin.papers[i].id
           /\ \A i \in 1..n : CallsFor(i) # {}
           /\ \A c, d \in 1..Len(cs) : c < d => cs[c].i <= cs[d].i

\* the first paper is answered twice by a JSON number, the second is rated
C9_Witness ==
    /\ fin.fn = "rate" /\ fout.done
    /\ Len(fin.papers) = 2
    /\ fin.envs[1] = <<EnvReply(BareNumber), EnvReply(BareNumber)>>
    /\ fin.envs[2][1] = EnvReply(PlainObject)
    /\ fout.r.out[1] = Paper(1)
    /\ fout.r.out[2].overall_priority_score = JInt(9)

-----------------------------------------------------------------------------
\* --- the sort of main ---
SortMaxPapers == 4

Scored(i, score) == Update(Paper(i), [overall_priority_score |-> score])
SortScores == {JInt(2), JInt(5), JInt(9), JStr(9)}

SortInit ==
    /\ OrchInit
    /\ \E n \in 0..SortMaxPapers :
         \E given \in [1..n -> SortScores \cup {JNull}] :
            \* JNull stands here for a paper without the score field
            fin = [fn |-> "sort",
                   papers |-> [i \in 1..n |-> IF given[i] = JNull THEN Paper(i)
                                              ELSE Scored(i, given[i])]]
    /\ fout = Pending

ApplySort ==
    /\ fin.fn = "sort" /\ ~fout.done
    /\ fout' = Done(sort_by_priority(fin.papers))
    /\ UNCHANGED <<fin, orchVars>>

SpecSort == SortInit /\ [][ApplySort]_vars

\* the score main sorts a paper by: the number in its score field, 0 without
ScoreOrZero(p) ==
    IF "overall_priority_score" \in DOMAIN p THEN p.overall_priority_score.n ELSE 0

AllNumeric(ps) ==
    \A i \in 1..Len(ps) :
        "overall_priority_score" \in DOMAIN ps[i] => ps[i].overall_priority_score.k = "int"

FiveNineNineTwo ==
    Len(fin.papers) = 4 /\ [i \in 1..4 |-> ScoreOrZero(fin.papers[i])] = <<5, 9, 9, 2>>

\* C10 (as amended): the sort of main orders the papers by
\* overall_priority_score descending, a paper without the field counting as 0,
\* and papers of equal score keep their input order; scores [5, 9, 9, 2] give
\* [idx1, idx2, idx0, idx3].
C10_SortStableDescending ==
    (fin.fn = "sort" /\ fout.done /\ AllNumeric(fin.papers)) =>
        LET n == Len(fin.papers)
            out == fout.r.out
        IN /\ fout.r.raised = "none"
           /\ Len(out) = n
           /\ {out[j] : j \in 1..n} = {fin.papers[i] : i \in 1..n}
           /\ \A a, b \in 1..n : a < b =>
                 \/ ScoreOrZero(out[a]) > ScoreOrZero(out[b])
                 \/ ScoreOrZero(out[a]) = ScoreOrZero(out[b]) /\ out[a].id < out[b].id
           /\ FiveNineNineTwo => [j \in 1..4 |-> out[j].id] = <<2, 3, 1, 4>>

\* C10 as stated: scores [5, 9, 9, 2] give the order [idx1, idx2, idx3, idx0]
\* (paper ids are the input indices plus one).
C10_OriginalOrder ==
    (fin.fn = "sort" /\ fout.done /\ AllNumeric(fin.papers) /\ FiveNineNineTwo) =>
        /\ fout.r.raised = "none"
        /\ [j \in 1..4 |-> fout.r.out[j].id] = <<2, 3, 4, 1>>

\* the scores [5, 9, 9, 2] sorted
C10_Witness ==
    /\ fin.fn = "sort" /\ fout.done
    /\ fin.papers = <<Scored(1, JInt(5)), Scored(2, JInt(9)), Scored(3, JInt(9)),
                      Scored(4, JInt(2))>>
    /\ fout.r.out = <<Scored(2, JInt(9)), Scored(3, JInt(9)), Scored(1, JInt(5)),
                      Scored(4, JInt(2))>>

-----------------------------------------------------------------------------
\* --- the two dispatchers ---

SomePrompt == <<"Summarize", "T1">>
Attachment == [type |-> "file", url |-> <<"https://arxiv.org", "/pdf/", "2401.1", ".pdf">>,
               mime |-> "application/pdf"]
SystemMessage == [role |-> "system", content |-> <<Part("text", <<"You are a helpful">>)>>]
BlockMessage == [role |-> "user", content |-> <<Part("text", SomePrompt)>>]

DispatchBodies == {<<"ok">>, <<" ", "ok", "\n">>}
DispatchEnvs ==
    {Env(key, import, http, body, azure) :
        key \in BOOLEAN, import \in BOOLEAN, http \in HttpOutcomes,
        body \in DispatchBodies, azure \in AzureOutcomes}

DispatchInit ==
    /\ OrchInit
    /\ \E env \in DispatchEnvs, model \in {ModelMarket, ModelAzure, ModelInfix} :
        \/ \E max_tokens \in {FilterMaxTokens, RatingMaxTokens} :
              fin = [fn |-> "dispatch", impl |-> "filter", prompt |-> Some(SomePrompt),
                     messages |-> NoMessages, attachments |-> <<>>, model |-> model,
                     max_tokens |-> max_tokens, env |-> env]
        \/ \E prompt \in {NoneV, Some(SomePrompt)},
              messages \in {NoMessages, SomeMessages(<<SystemMessage, BlockMessage>>),
                            SomeMessages(<<BlockMessage>>)},
              attachments \in {<<>>, <<Attachment>>} :
              fin = [fn |-> "dispatch", impl |-> "llm_utils", prompt |-> prompt,
                     messages |-> messages, attachments |-> attachments, model |-> model,
                     max_tokens |-> RatingMaxTokens, env |-> env]
    /\ fout = Pending

ApplyDispatch ==
    /\ fin.fn = "dispatch" /\ ~fout.done
    /\ fout' = Done(IF fin.impl = "filter"
                    THEN filter_call_llm_by_model(fin.prompt.text, fin.model,
                                                  fin.max_tokens, fin.env)
                    ELSE call_llm_by_model(fin.prompt, fin.model, fin.max_tokens,
                                           fin.messages, fin.attachments, fin.env))
    /\ UNCHANGED <<fin, orchVars>>

SpecDispatch == DispatchInit /\ [][ApplyDispatch]_vars

\* the world of the call makes the selected backend fail: no API key or a
\* request that does not end in a well-formed reply (marketplace); no helper
\* module, or a helper that raises or gives nothing (managed)
BackendFails ==
    IF fin.model # ModelAzure
    THEN ~fin.env.key \/ fin.env.http # "ok"
    ELSE ~fin.env.import \/ fin.env.azure # "text"

\* C6: for a request that supplies a prompt or messages, both dispatchers
\* return the reply text or None and let no exception escape: transport
\* failure, timeout, non-2xx status, a body without the reply field, a failed
\* backend import and missing credentials all give None, and a missing API key
\* gives it without any request being sent.
C6_DispatchNeverRaises ==
    (fin.fn = "dispatch" /\ fout.done /\ (fin.prompt.some \/ fin.messages.some)) =>
        /\ fout.r.raised = "none"
        /\ BackendFails => fout.r.ret = NoneV
        /\ ~BackendFails => fout.r.ret.some
        /\ (fin.model # ModelAzure /\ ~fin.env.key) => fout.r.sent = <<>>
        /\ Len(fout.r.sent) <= 1

\* a response whose reply field is null, on the summarizer's dispatcher
C6_Witness ==
    /\ fin.fn = "dispatch" /\ fout.done
    /\ fin.impl = "llm_utils" /\ fin.model = ModelMarket
    /\ fin.env.key /\ fin.env.http = "null_content"
    /\ fin.messages.some
    /\ fout.r.ret = NoneV /\ fout.r.raised = "none" /\ Len(fout.r.sent) = 1

-----------------------------------------------------------------------------
\* --- extract_and_summarize ---

PdfUrl == <<"https://arxiv.org", "/pdf/", "2401.1", ".pdf">>

EmptyUrlPaper == [Paper(1) EXCEPT !.url = <<>>]
NoUrlPaper == [f \in {"id", "title", "summary"} |-> Paper(1)[f]]
PdfUrlPaper == [Paper(1) EXCEPT !.url = PdfUrl]

SumPapers == {Paper(1), EmptyUrlPaper, NoUrlPaper, PdfUrlPaper, NoAbstractPaper}

\* lengths of the stripped article text around the two limits
ArticleLengths == {0, MinArticleChars, MinArticleChars + 1, 5000, MAX_INPUT_CHARS + 1}

HtmlOutcomes == {"ok", "status_404", "error", "no_trafilatura"}
PdfOutcomes == {"ok", "cached", "error"}

SummaryReply == <<" ", "summary", "\n">>
SumLlmEnvs == {EnvReply(SummaryReply), EnvReply(<<>>), EnvFail, EnvNoKey}

SumEnvs ==
    {SumEnv(h, n, p, l) :
        h \in HtmlOutcomes, n \in ArticleLengths, p \in PdfOutcomes, l \in SumLlmEnvs}

SummarizeInit ==
    /\ OrchInit
    /\ \E paper \in SumPapers, env \in SumEnvs, model \in {ModelMarket, ModelAzure},
          prompt \in {NoneV, Some(<<"P">>)} :
          fin = [fn |-> "summarize", paper |-> paper, prompt |-> prompt,
                 model |-> model, env |-> env]
    /\ fout = Pending

ApplySummarize ==
    /\ fin.fn = "summarize" /\ ~fout.done
    /\ fout' = Done(extract_and_summarize(fin.paper, fin.prompt, fin.model, fin.env))
    /\ UNCHANGED <<fin, orchVars>>

SpecSummarize == SummarizeInit /\ [][ApplySummarize]_vars

\* the paper has a URL, so an HTML and a PDF URL derive from it
HasUrl == "url" \in DOMAIN fin.paper /\ fin.paper.url # <<>>

\* the page is fetched and holds more than the minimum of text
UsableText ==
    fin.env.html = "ok" /\ fin.env.len > 200

\* how often step s occurs among the steps taken
StepCount(s) == Cardinality({i \in 1..Len(fout.r.steps) : fout.r.steps[i] = s})

\* C11: for a paper with a URL (and an abstract), the full-text fetch comes
\* first and happens exactly once; with usable text (more than 200
\* characters) exactly one dispatcher call is made, with the text budget
\* 10000 (< 20000) and an excerpt of at most 100000 characters, and neither
\* the PDF download nor the PDF call happens; with no usable text (empty,
\* too short, non-200, fetch error) the next steps are the PDF download and
\* the one PDF dispatcher call with budget 20000 and, on the marketplace,
\* the PDF attachment; the page is never fetched a second time.
C11_SummarizeFallbackOrder ==
    (fin.fn = "summarize" /\ fout.done /\ HasUrl /\ fin.paper.summary # NoneStr) =>
        /\ fout.r.steps[1] = "get_html" /\ StepCount("get_html") = 1
        /\ Len(fout.r.calls) = 1
        /\ 10000 < 20000
        /\ UsableText =>
              /\ fout.r.steps = <<"get_html", "llm_text">>
              /\ fout.r.calls[1].path = "text"
              /\ fout.r.calls[1].max_tokens = 10000
              /\ fout.r.calls[1].excerpt_len <= 100000
              /\ fout.r.calls[1].excerpt_len <= fin.env.len
              /\ fout.r.calls[1].attachments = <<>>
        /\ ~UsableText =>
              /\ fout.r.steps = <<"get_html", "download_pdf", "llm_pdf">>
              /\ fout.r.calls[1].path = "pdf"
              /\ fout.r.calls[1].max_tokens = 20000
              /\ fin.model = ModelMarket => Len(fout.r.calls[1].attachments) = 1

\* an article of 100001 characters is cut to 100000 and summarized on the
\* text path
C11_Witness ==
    /\ fin.fn = "summarize" /\ fout.done
    /\ fin.paper = Paper(1) /\ fin.env.html = "ok" /\ fin.env.len = 100001
    /\ fin.env.llm = EnvReply(SummaryReply) /\ fin.model = ModelMarket
    /\ fout.r.calls[1].excerpt_len = 100000
    /\ fout.r.paper.llm_summary = <<"summary">>

\* the paper returned carries a summary
Summarized == "llm_summary" \in DOMAIN fout.r.paper

\* C12, as the code has it: a paper with a URL comes back without
\* llm_summary exactly when the one dispatcher call of the path taken (the
\* full-text path with usable text, the PDF path otherwise) gave no text or
\* an empty one (or the call was never reached); only one path is taken, and
\* a failed call on the full-text path is not followed by the PDF path.
C12_OnePathOneCall ==
    (fin.fn = "summarize" /\ fout.done /\ HasUrl) =>
        /\ Len(fout.r.calls) <= 1
        /\ StepCount("llm_text") + StepCount("llm_pdf") <= 1
        /\ UsableText => StepCount("llm_pdf") = 0
        /\ ~Summarized <=>
              \/ fout.r.raised # "none"
              \/ LET r == call_llm_by_model(fout.r.calls[1].prompt, fin.model,
                                            fout.r.calls[1].max_tokens,
                                            fout.r.calls[1].messages,
                                            fout.r.calls[1].attachments, fin.env.llm)
                 IN ~Truthy(r.ret)

\* C12 as stated: a paper with a URL (and an abstract) lacks llm_summary only
\* if both the full-text path and the PDF path were attempted and neither
\* gave a summary.
C12_DegradesThroughChain ==
    (fin.fn = "summarize" /\ fout.done /\ HasUrl /\ fin.paper.summary # NoneStr
        /\ ~Summarized) =>
        /\ StepCount("get_html") = 1
        /\ StepCount("llm_pdf") = 1

\* usable text, a dispatcher call that fails: no summary, and no PDF call
C12_Witness ==
    /\ fin.fn = "summarize" /\ fout.done
    /\ fin.paper = Paper(1) /\ UsableText /\ fin.env.llm = EnvFail
    /\ ~Summarized
    /\ fout.r.steps = <<"get_html", "llm_text">>

\* C19: a paper whose URL is absent or empty comes back unmodified, with no
\* dispatcher call, no PDF download, no page fetch and no exception.
C19_NoUrlReturnsUnmodified ==
    (fin.fn = "summarize" /\ fout.done /\ ~HasUrl) =>
        /\ fout.r.paper = fin.paper
        /\ fout.r.calls = <<>> /\ fout.r.sent = <<>>
        /\ fout.r.steps = <<>>
        /\ fout.r.raised = "none"

\* the paper with an empty URL, in a world where every fetch and call would
\* succeed
C19_Witness ==
    /\ fin.fn = "summarize" /\ fout.done
    /\ fin.paper = EmptyUrlPaper
    /\ fin.env = SumEnv("ok", 5000, "ok", EnvReply(SummaryReply))
    /\ fout.r.paper = EmptyUrlPaper /\ fout.r.calls = <<>>

-----------------------------------------------------------------------------
(* Properties of the orchestrator: rendering, the index, partial results.    *)

\* how often the invocation under way has called name
CallCount(name) == Cardinality({i \in 1..Len(calls) : calls[i] = name})

\* C13 as stated: an invocation that ends with the complete artifact in place
\* (written by it or found at entry) has called the renderer exactly once and
\* has rewritten reports.json after it, whatever the renderer's outcome.
C13_RenderThenIndexAlways ==
    (pc = "done" /\ fs[cur.key].state = "complete") =>
        /\ CallCount("generate_html_from_json") = 1
        /\ calls[Len(calls)] = "write_reports_json"

\* relative paths sort by feed, then by date: the feeds in descending order
FeedsDescending == <<"cs.RO", "cs.CV">>

\* every rendered output known, as reports.json would list them in descending
\* order
AllRendered ==
    Descending({k \in html : k.feed = FeedsDescending[1]}) \o
    Descending({k \in html : k.feed = FeedsDescending[2]})

\* C14 as stated: when an invocation has written reports.json, the index lists
\* every rendered output currently known, of every feed, in descending
\* order; when the output directory was missing it is the empty list.
C14_IndexListsAllFeeds ==
    /\ (pc = "done" /\ cur.index = "ok") => reports = Some(AllRendered)
    /\ (pc = "done" /\ cur.index = "dir_missing") => reports = Some(<<>>)

\* the paper with this id as the feed gave it
FeedPaper(id) == IF id = 1 THEN Paper(1) ELSE NoAbstractPaper

\* C15: on a cache miss the artifact written holds exactly the papers the
\* filter retained, in descending score order (missing score 0, ties in
\* retained order), each with the feed's fields and whatever rating fields and
\* llm_summary it acquired; extract_and_summarize was called once for every
\* retained paper, also after one of the calls raised.
C15_PartialResultsPersisted ==
    (pc \in {"render", "index", "done"} /\ cur.start = "absent"
        /\ fs[cur.key].state = "complete") =>
        LET data == fs[cur.key].data
            n == Len(cur.retained)
            place(id) == CHOOSE i \in 1..n : cur.retained[i] = id
        IN /\ Len(data) = n
           /\ {data[i].id : i \in 1..n} = {cur.retained[i] : i \in 1..n}
           /\ \A i \in 1..n :
                 /\ \A f \in DOMAIN FeedPaper(data[i].id) :
                       data[i][f] = IsoDates(FeedPaper(data[i].id))[f]
                 /\ DOMAIN data[i] \subseteq
                       DOMAIN FeedPaper(data[i].id) \cup RatingFields \cup {"llm_summary"}
           /\ \A i, j \in 1..n :
                 i < j =>
                    \/ ScoreOrZero(data[i]) > ScoreOrZero(data[j])
                    \/ /\ ScoreOrZero(data[i]) = ScoreOrZero(data[j])
                       /\ place(data[i].id) < place(data[j].id)
           /\ CallCount("extract_and_summarize") = n

\* two papers retained: the first in score order raised while it was
\* summarized and is saved with its rating and without summary, the second
\* was summarized after it and is saved with summary and without rating
C15_Witness ==
    /\ pc = "done" /\ cur.start = "absent" /\ fs[cur.key].state = "complete"
    /\ CallCount("summarization_failed") = 1
    /\ Len(fs[cur.key].data) = 2
    /\ "llm_summary" \notin DOMAIN fs[cur.key].data[1]
    /\ "overall_priority_score" \in DOMAIN fs[cur.key].data[1]
    /\ "llm_summary" \in DOMAIN fs[cur.key].data[2]
    /\ "overall_priority_score" \notin DOMAIN fs[cur.key].data[2]

-----------------------------------------------------------------------------
(* Properties of the dispatchers: input contract, attachments, routing.      *)

\* a call of the summarizer's dispatcher has returned or raised
DispatchedLlmUtils == fin.fn = "dispatch" /\ fout.done /\ fin.impl = "llm_utils"

\* C16 as stated: a request with neither prompt nor messages fails fast: on
\* every backend and in every world it raises, returns nothing and sends no
\* request.
C16_NeitherPromptNorMessagesRaises ==
    (DispatchedLlmUtils /\ ~fin.prompt.some /\ ~fin.messages.some) =>
        /\ fout.r.raised # "none"
        /\ fout.r.sent = <<>>

\* the messages of the request sent
SentMessages == fout.r.sent[1].messages

\* the messages the caller gave, or the one user message made of the prompt
GivenMessages ==
    IF fin.messages.some THEN fin.messages.list ELSE <<UserMessage(fin.prompt.text)>>

\* C17, as the code has it: on the marketplace a non-empty attachments list is
\* set on the first message whenever that message has the user role, whether
\* the list was made from the prompt or supplied by the caller, and is
\* dropped, without exception, when the first message has another role; on
\* the managed backend no message ever carries attachments and a plain prompt
\* becomes a single user message.
C17_AttachToFirstUserMessage ==
    (DispatchedLlmUtils /\ (fin.prompt.some \/ fin.messages.some)
        /\ fout.r.sent # <<>>) =>
        /\ fout.r.raised = "none"
        /\ Len(SentMessages) = Len(GivenMessages)
        /\ \A i \in 1..Len(SentMessages) :
              /\ SentMessages[i].role = GivenMessages[i].role
              /\ SentMessages[i].content = GivenMessages[i].content
              /\ "attachments" \in DOMAIN SentMessages[i] <=>
                    /\ i = 1
                    /\ fin.model # ModelAzure
                    /\ fin.attachments # <<>>
                    /\ GivenMessages[1].role = "user"
              /\ "attachments" \in DOMAIN SentMessages[i] =>
                    SentMessages[i].attachments = fin.attachments
        /\ (fin.model = ModelAzure /\ ~fin.messages.some) =>
              SentMessages = <<UserMessage(fin.prompt.text)>>

\* C17 as stated: on the marketplace, attachments given together with
\* caller-supplied messages are not wired into any message.
C17_NoAttachOnCallerMessages ==
    (DispatchedLlmUtils /\ fin.model # ModelAzure /\ fin.messages.some
        /\ fin.attachments # <<>> /\ fout.r.sent # <<>>) =>
        \A i \in 1..Len(SentMessages) : "attachments" \notin DOMAIN SentMessages[i]

\* the caller supplies one user message and an attachment: the request sent
\* carries the attachment on that message
C17_Witness ==
    /\ DispatchedLlmUtils /\ fin.model = ModelMarket
    /\ fin.messages = SomeMessages(<<BlockMessage>>)
    /\ fin.attachments = <<Attachment>>
    /\ fout.r.sent # <<>>
    /\ SentMessages[1].attachments = <<Attachment>>

\* the identifier starts with the six characters of "azure-"
AzureIdentifier ==
    /\ Len(fin.model) >= 6
    /\ <<fin.model[1], fin.model[2], fin.model[3], fin.model[4], fin.model[5],
         fin.model[6]>> = <<"a", "z", "u", "r", "e", "-">>

\* C18: a call of either dispatcher hands at most one request to a backend,
\* and exactly one when the backend selected can be reached (its helper
\* imports, its key is set) and the input is well-formed; an identifier that
\* starts with "azure-" selects the managed backend with the identifier minus
\* that prefix as deployment; any other identifier, also one that holds
\* "azure-" further in, selects the marketplace with the identifier unchanged.
C18_RoutingByPrefix ==
    (fin.fn = "dispatch" /\ fout.done) =>
        /\ Len(fout.r.sent) <= 1
        /\ \A i \in 1..Len(fout.r.sent) :
              IF AzureIdentifier
              THEN /\ fout.r.sent[i].backend = "azure"
                   /\ fout.r.sent[i].model = SubSeq(fin.model, 7, Len(fin.model))
              ELSE /\ fout.r.sent[i].backend = "openrouter"
                   /\ fout.r.sent[i].model = fin.model
        /\ (AzureIdentifier /\ fin.env.import) => Len(fout.r.sent) = 1
        /\ (~AzureIdentifier /\ fin.env.key /\ (fin.prompt.some \/ fin.messages.some))
              => Len(fout.r.sent) = 1

\* the identifier azure-x reaches the managed backend as deployment x, the
\* marketplace key being unset
C18_Witness ==
    /\ DispatchedLlmUtils /\ fin.model = ModelAzure
    /\ fin.env.import /\ ~fin.env.key
    /\ Len(fout.r.sent) = 1
    /\ fout.r.sent[1].backend = "azure" /\ fout.r.sent[1].model = <<"x">>

-----------------------------------------------------------------------------
\* --- the defaults of main's arguments, lines 50 and 68-69 ---

PromptValues == {NoneStr, "", "robotics"}
SummaryPromptValues == {NoneStr, "", "short"}
OverrideValues == {NoneStr, "", "vla"}
LargeModelValues == {NoneV, Some(<<>>), Some(ModelAzure)}

Configs ==
    {NoConfig} \cup {ConfigOf(f, s) : f \in PromptValues, s \in SummaryPromptValues}

DefaultsInit ==
    /\ OrchInit
    /\ \E config \in Configs, override \in OverrideValues,
          large_model \in LargeModelValues, model \in {ModelMarket, ModelAzure} :
          fin = [fn |-> "defaults", config |-> config,
                 filter_prompt_override |-> override, large_model |-> large_model,
                 model |-> model]
    /\ fout = Pending

ApplyDefaults ==
    /\ fin.fn = "defaults" /\ ~fout.done
    /\ fout' = Done([topic |-> topic_for_filter(fin.filter_prompt_override, fin.config),
                     prompt |-> sum_prompt(fin.config),
                     model |-> summarization_model(fin.large_model, fin.model)])
    /\ UNCHANGED <<fin, orchVars>>

SpecDefaults == DefaultsInit /\ [][ApplyDefaults]_vars

\* a prompt value that is set: neither None nor the empty string
Given(str) == str \notin {"<None>", ""}

\* C20: for config absent and for every combination of present and absent
\* config prompts, the filter topic is the override when one is given
\* (non-empty), otherwise config.filter_prompt when set, otherwise the
\* built-in topic; the summarization prompt is config.summarization_prompt
\* when set, otherwise the built-in prompt; neither choice looks at the other
\* field.
C20_ConfigDefaults ==
    (fin.fn = "defaults" /\ fout.done) =>
        /\ fout.r.topic =
              IF Given(fin.filter_prompt_override) THEN fin.filter_prompt_override
              ELSE IF fin.config.present /\ Given(fin.config.filter_prompt)
              THEN fin.config.filter_prompt
              ELSE "general image/video/multimodal generation or image/video editing"
        /\ fout.r.prompt =
              IF fin.config.present /\ Given(fin.config.summarization_prompt)
              THEN Some(<<fin.config.summarization_prompt>>)
              ELSE Some(<<"Summarize the attached paper succinctly.">>)

\* a config with a summarization prompt and no filter prompt, no override:
\* the built-in topic and the config's summarization prompt
C20_Witness ==
    /\ fin.fn = "defaults" /\ fout.done
    /\ fin.config = ConfigOf(NoneStr, "short")
    /\ fin.filter_prompt_override = NoneStr
    /\ fout.r.topic = DefaultTopic
    /\ fout.r.prompt = Some(<<"short">>)

-----------------------------------------------------------------------------
(* Properties of the command line.                                           *)

\* C21 as stated: a --date that does not parse is a fatal usage error that
\* aborts before any work begins: the process exits with a failure status,
\* main is invoked for none of the three dates, and no file is created or
\* modified before the exit.
C21_BadDateAbortsBeforeAnyWork ==
    cli.state = "usage_error" =>
        /\ cli.status = "exit(1)"
        /\ cli.attempted = <<>> /\ runs = 0 /\ pc = "idle" /\ calls = <<>>
        /\ \A k \in Keys : fs[k] = Absent
        /\ html = {} /\ reports = NoneV
        /\ ~cli.created

\* C23 as stated: when --config names a config folder, the provider_feed of
\* that config is the feed of every run of the backfill window, for fetching
\* and for the place of the artifact.
C23_ConfigFeedIsRunFeed ==
    (cli.state = "running" /\ cli.config_feed # NoneStr /\ pc # "idle") =>
        cur.key.feed = cli.config_feed

-----------------------------------------------------------------------------
\* --- from the command line to the summarizer's model, lines 183-215 and 68 ---

ArgModels == {NoneV, Some(ModelAzure), Some(ModelInfix)}
ArgFolders == {NoFolder, ReadOnlyDisk, Folder("cs.RO")}

\* the world of the one summarization the run makes: the article is read and
\* the backend answers
ArgSumEnv == SumEnv("ok", 5000, "ok", EnvReply(<<"summary">>))

ArgsInit ==
    /\ OrchInit
    /\ \E date \in CliDates, feed \in CliFeeds, config \in CliConfigs,
          small \in ArgModels, large \in ArgModels, folder \in ArgFolders :
          fin = [fn |-> "cli", argv |-> Argv(date, feed, config, small, large),
                 folder |-> folder]
    /\ fout = Pending

\* the script up to its first main(...) call, and the summarization of one
\* retained paper in it (lines 68-75)
ApplyArgs ==
    /\ fin.fn = "cli" /\ ~fout.done
    /\ LET start == cli_startup(fin.argv, fin.folder)
           kwargs == main_kwargs(start)
           run == extract_and_summarize(
                      Paper(1), sum_prompt(NoConfig),
                      summarization_model(kwargs.large_model, kwargs.model), ArgSumEnv)
       IN fout' = Done([start |-> start, kwargs |-> kwargs,
                        calls |-> IF start.status = "none" THEN run.calls ELSE <<>>])
    /\ UNCHANGED <<fin, orchVars>>

SpecArgs == ArgsInit /\ [][ApplyArgs]_vars

\* C22 as stated: when --large-language-model is not given, every
\* summarization call of the run uses the model given with
\* --small-language-model.
C22_SummarizerDefaultsToSmallModel ==
    (fin.fn = "cli" /\ fout.done /\ fin.argv.small_language_model.some
        /\ ~fin.argv.large_language_model.some) =>
        \A i \in 1..Len(fout.r.calls) :
            fout.r.calls[i].model = fin.argv.small_language_model.text

-----------------------------------------------------------------------------
(* Properties of the summarizer: one summary, the PDF path.                  *)

\* what the dispatcher returned to the one call made, None when none was made
SumResponse ==
    IF fout.r.calls = <<>> \/ fout.r.raised # "none" THEN NoneV
    ELSE call_llm_by_model(fout.r.calls[1].prompt, fin.model,
                           fout.r.calls[1].max_tokens, fout.r.calls[1].messages,
                           fout.r.calls[1].attachments, fin.env.llm).ret

\* C24: one extract_and_summarize invocation makes at most one dispatcher
\* call and writes at most one summary: the paper returned is the paper given,
\* or the paper given with llm_summary set to the stripped response and every
\* other field as it was; when no summary is obtained (the dispatcher returns
\* None or the empty text, or is never called) every field is left unchanged.
C24_AtMostOneSummary ==
    (fin.fn = "summarize" /\ fout.done) =>
        /\ Len(fout.r.calls) <= 1 /\ Len(fout.r.sent) <= 1
        /\ \A f \in DOMAIN fin.paper :
              f \in DOMAIN fout.r.paper /\ fout.r.paper[f] = fin.paper[f]
        /\ DOMAIN fout.r.paper \subseteq DOMAIN fin.paper \cup {"llm_summary"}
        /\ IF Truthy(SumResponse)
           THEN fout.r.paper.llm_summary = Strip(SumResponse.text)
           ELSE fout.r.paper = fin.paper

\* usable text and a backend that answers with the empty text: one call, and
\* the paper comes back as it was given
C24_Witness ==
    /\ fin.fn = "summarize" /\ fout.done
    /\ fin.paper = Paper(1) /\ UsableText /\ fin.env.llm = EnvReply(<<>>)
    /\ Len(fout.r.calls) = 1 /\ Len(fout.r.sent) = 1
    /\ SumResponse = Some(<<>>)
    /\ fout.r.paper = Paper(1)

\* the PDF URL as an attachment of a marketplace request
PdfAttachment == <<[type |-> "file", url |-> PdfUrl, mime |-> "application/pdf"]>>

\* C28: for a paper with a URL (and an abstract) whose full text is not
\* usable, whether _download_pdf succeeds, fails or finds the cached file,
\* nothing is raised and exactly one PDF-path dispatcher call follows the one
\* download; for a marketplace model the call carries the PDF URL as an
\* attachment (on the first user message of the request), for a managed
\* model it carries no attachment and the PDF URL is in the text of the user
\* message.
C28_PdfDownloadBestEffort ==
    (fin.fn = "summarize" /\ fout.done /\ HasUrl /\ fin.paper.summary # NoneStr
        /\ ~UsableText) =>
        /\ fout.r.raised = "none"
        /\ StepCount("download_pdf") = 1 /\ StepCount("llm_pdf") = 1
        /\ SubSeq(fout.r.steps, Len(fout.r.steps) - 1, Len(fout.r.steps))
              = <<"download_pdf", "llm_pdf">>
        /\ Len(fout.r.calls) = 1 /\ fout.r.calls[1].path = "pdf"
        /\ IF StartsWith(fin.model, <<"a", "z", "u", "r", "e", "-">>)
           THEN /\ fout.r.calls[1].attachments = <<>>
                /\ fout.r.calls[1].messages.some
                /\ \E m \in Range(fout.r.calls[1].messages.list) :
                      /\ m.role = "user"
                      /\ \E part \in Range(m.content) : Contains(part.text, PdfUrl)
                /\ \A i \in 1..Len(fout.r.sent) :
                      \A m \in Range(fout.r.sent[i].messages) :
                          "attachments" \notin DOMAIN m
           ELSE /\ fout.r.calls[1].attachments = PdfAttachment
                /\ \A i \in 1..Len(fout.r.sent) :
                      /\ fout.r.sent[i].messages[1].role = "user"
                      /\ fout.r.sent[i].messages[1].attachments = PdfAttachment

\* the page is missing and the download fails: the marketplace is still
\* called once, with the PDF URL attached, and the summary is written
C28_Witness ==
    /\ fin.fn = "summarize" /\ fout.done
    /\ fin.paper = Paper(1) /\ fin.model = ModelMarket
    /\ fin.env.html = "status_404" /\ fin.env.pdf = "error"
    /\ fin.env.llm = EnvReply(SummaryReply)
    /\ fout.r.steps = <<"get_html", "download_pdf", "llm_pdf">>
    /\ Len(fout.r.sent) = 1
    /\ fout.r.sent[1].messages[1].attachments = PdfAttachment
    /\ fout.r.paper.llm_summary = <<"summary">>

-----------------------------------------------------------------------------
(* Properties of the orchestrator: failed saves, failed renders, runs that   *)
(* retain nothing.                                                           *)

\* the ways of line 89-98 to fail: open raises, json.dump raises
FailedSaves == {"open_error", "dump_error_empty", "dump_error_partial"}

\* C25 as stated: when persisting fails (the file cannot be opened or the
\* dump raises), no file is left at the artifact's place, the renderer is not
\* invoked, and the next invocation for the RunKey takes the cache-miss path;
\* a file at an artifact's place always holds a complete paper list.
C25_FailedSaveLeavesNoArtifact ==
    /\ (pc = "done" /\ cur.save \in FailedSaves) =>
          /\ fs[cur.key] = Absent
          /\ ~Called("generate_html_from_json")
    /\ (pc # "idle" /\ prev.key = cur.key /\ prev.save \in FailedSaves) => ~cur.hit
    /\ \A k \in Keys : fs[k].state \in {"absent", "complete"}

\* C27: a failure of the renderer never ends the run with an exception:
\* whether the template is not found or generate_html_from_json raises
\* anything else, the exception is caught, main returns normally, the index is
\* not updated by this invocation, and the artifact is what it was before the
\* renderer was called.
C27_RenderFailureIsCaught ==
    (pc = "done" /\ cur.render \in {"template_not_found", "error"}) =>
        /\ cur.exc = "none"
        /\ Called("generate_html_from_json") /\ ~Called("write_reports_json")
        /\ IF cur.hit THEN fs[cur.key].state = cur.start
           ELSE fs[cur.key] = Complete(papers)

\* a run that fetched, saved its list and then found no template: it ends
\* without exception and the artifact holds the list
C27_Witness ==
    /\ pc = "done" /\ cur.render = "template_not_found"
    /\ ~cur.hit /\ papers # <<>>
    /\ cur.exc = "none"
    /\ fs[cur.key] = Complete(papers)

\* the files holding the empty list stay as they are
EmptyListArtifactsKept ==
    \A k \in Keys : fs[k] = Complete(<<>>) => fs'[k] = fs[k]

\* C29: when the feed returns papers and the filter retains none, main goes
\* on to save and (the save succeeding) leaves an artifact holding the empty
\* list; that file is never rewritten, and every later invocation for the
\* RunKey takes the cache-hit path: no fetch, no filter, no rating, no
\* summarization.
C29_EmptyListIsCached ==
    /\ [](/\ (pc \in {"render", "index", "done"} /\ ~cur.hit /\ cur.fetched = "some"
                /\ cur.retained = <<>> /\ cur.exc = "none" /\ cur.save = "ok")
              => fs[cur.key] = Complete(<<>>)
          /\ (pc = "done" /\ ~cur.hit /\ cur.fetched = "some" /\ cur.retained = <<>>
                /\ cur.exc = "none")
              => cur.save # "none"
          /\ (pc # "idle" /\ cur.start = "complete" /\ fs[cur.key] = Complete(<<>>))
              => (cur.hit /\ SkipsPipeline))
    /\ [][EmptyListArtifactsKept]_vars

\* a second invocation for a RunKey whose artifact holds the empty list has
\* ended on the cache-hit path
C29_Witness ==
    /\ pc = "done" /\ cur.repeat = "after_artifact" /\ prev.save = "ok"
    /\ cur.hit /\ fs[cur.key] = Complete(<<>>)
    /\ ~Called("fetch_papers") /\ Called("generate_html_from_json")

-----------------------------------------------------------------------------
\* --- one paper's rating attempts, by the shape of the reply ---

BareFencedObject == <<"[fence]", "\n", "{score: 5}", "\n", "[fence]">>
PairList == <<"[[tldr, x]]">>
EmptyString == <<"''">>
NullReply == <<"null">>

\* the replies that are one JSON object, bare or inside a fenced block with
\* or without the json tag
MappingReplies == {PlainObject, FencedObject, BareFencedObject}

AttemptReplyTexts ==
    {Junk, PlainObject, FencedObject, BareFencedObject, BareNumber, EmptyList,
     PairList, EmptyString, NullReply}
AttemptEnvs == {EnvReply(t) : t \in AttemptReplyTexts} \cup {EnvFail}

AttemptsInit ==
    /\ OrchInit
    /\ \E envs \in [1..1 -> [1..2 -> AttemptEnvs]], model \in {ModelMarket, ModelAzure} :
          fin = [fn |-> "attempts", papers |-> PaperList(1), model |-> model,
                 envs |-> envs]
    /\ fout = Pending

ApplyAttempts ==
    /\ fin.fn = "attempts" /\ ~fout.done
    /\ fout' = Done(rate_papers(fin.papers, fin.model, fin.envs))
    /\ UNCHANGED <<fin, orchVars>>

SpecAttempts == AttemptsInit /\ [][ApplyAttempts]_vars

\* the dispatcher answered attempt a with text
Replied(a) ==
    IF fin.model = ModelAzure THEN fin.envs[1][a].azure = "text"
    ELSE fin.envs[1][a].key /\ fin.envs[1][a].http = "ok"

\* C26 as stated: a rating attempt is successful if and only if the reply,
\* after an optional fenced code-block wrapper (with or without a language
\* tag) is stripped, parses as one structured object (a mapping); only then
\* are the fields merged into the paper and the retry loop stopped.
C26_SuccessIffFencedMapping ==
    (fin.fn = "attempts" /\ fout.done) =>
        LET first == Replied(1) /\ fin.envs[1][1].body \in MappingReplies
        IN /\ Len(fout.r.calls) = (IF first THEN 1 ELSE 2)
           /\ first => fout.r.out[1].overall_priority_score \in {JInt(5), JInt(9)}

-----------------------------------------------------------------------------
(* Properties of the dispatchers: the two implementations side by side.      *)

\* the request is a prompt alone: no message list, no attachment
PromptOnly == fin.prompt.some /\ ~fin.messages.some /\ fin.attachments = <<>>

\* what the dispatcher of the other module does with the arguments of fin
OtherDispatcher ==
    IF fin.impl = "filter"
    THEN call_llm_by_model(fin.prompt, fin.model, fin.max_tokens, NoMessages, <<>>,
                           fin.env)
    ELSE filter_call_llm_by_model(fin.prompt.text, fin.model, fin.max_tokens, fin.env)

\* C30 as stated: for a prompt-only request the dispatcher of filter.py and
\* the dispatcher of llm_utils.py are equivalent: for the same prompt, model
\* and max_tokens they hand the same backend the same messages with the same
\* output-token budget, the caller's max_tokens reaching the backend
\* unchanged.
C30_DispatchersEquivalent ==
    (fin.fn = "dispatch" /\ fout.done /\ PromptOnly) =>
        /\ Len(fout.r.sent) = Len(OtherDispatcher.sent)
        /\ \A i \in 1..Len(fout.r.sent) :
              /\ fout.r.sent[i].backend = OtherDispatcher.sent[i].backend
              /\ fout.r.sent[i].messages = OtherDispatcher.sent[i].messages
              /\ fout.r.sent[i].max_tokens = OtherDispatcher.sent[i].max_tokens
              /\ fout.r.sent[i].max_tokens = fin.max_tokens

-----------------------------------------------------------------------------
(* Properties of the orchestrator: the dispatcher calls of a run, the files  *)
(* a run writes.                                                             *)

\* the stage of a dispatcher call of the log, 0 for the other entries
LlmStage(name) ==
    CASE name = "llm:filter" -> 1
      [] name = "llm:rate" -> 2
      [] name = "llm:summarize" -> 3
      [] OTHER -> 0

\* the dispatcher calls logged so far
LlmCount == Cardinality({i \in 1..Len(calls) : LlmStage(calls[i]) > 0})

\* the place of a stage in the order of main; idle is where main has returned
StageRank(stage) ==
    CASE stage = "fetch" -> 1
      [] stage = "filter" -> 2
      [] stage = "rate" -> 3
      [] stage = "sort" -> 4
      [] stage = "summarize" -> 5
      [] stage = "save" -> 6
      [] stage = "render" -> 7
      [] stage = "index" -> 8
      [] stage = "done" -> 9
      [] OTHER -> 10

\* every step of an invocation moves it to a later stage
StageAdvances == pc # "idle" => StageRank(pc') > StageRank(pc)

\* no dispatcher call is made once the invocation's artifact is written
NoCallAfterWrite ==
    (pc # "idle" /\ ~cur.hit /\ Exists(fs[cur.key]) /\ pc' # "idle") =>
        calls' = calls \/ LlmStage(calls'[Len(calls')]) = 0

\* C31: a cache-miss run over N fetched papers of which M are retained makes
\* at most N filter calls, 2 * M rating calls and M summarization calls to the
\* dispatcher, all filter calls before all rating calls before all
\* summarization calls before the artifact is written, and ends: every step
\* moves main to a later one of its finitely many stages, whatever the
\* backends return.
C31_BoundedCallsInStageOrder ==
    /\ [](pc # "idle" /\ ~cur.hit =>
            /\ CallCount("llm:filter") <= cur.n
            /\ Len(cur.retained) <= cur.n
            /\ CallCount("llm:rate") <= 2 * Len(cur.retained)
            /\ CallCount("llm:summarize") <= Len(cur.retained)
            /\ \A i, j \in 1..Len(calls) :
                  (i < j /\ LlmStage(calls[i]) > 0 /\ LlmStage(calls[j]) > 0)
                      => LlmStage(calls[i]) <= LlmStage(calls[j])
            /\ StageRank(pc) <= 6 => ~Exists(fs[cur.key])
            /\ LlmCount > 0 => calls[1] = "fetch_papers")
    /\ [][StageAdvances /\ NoCallAfterWrite]_vars

\* a run that fetched two papers and kept both has written its artifact and
\* ended after two filter calls, four rating calls and at least one
\* summarization call
C31_Witness ==
    /\ pc = "done" /\ ~cur.hit /\ cur.save = "ok"
    /\ cur.n = 2 /\ Len(cur.retained) = 2
    /\ CallCount("llm:filter") = 2
    /\ CallCount("llm:rate") = 4
    /\ CallCount("llm:summarize") >= 1
    /\ fs[cur.key].state = "complete"

\* C32: an invocation for one (date, feed) leaves the file of every other
\* (date, feed) as it is: distinct RunKeys have distinct artifact paths
\* daily_json/<feed>/<date>.json, and the only file a step of main changes is
\* the one of the RunKey of the invocation under way.
C32_WritesOwnArtifactOnly ==
    /\ [](\A k1, k2 \in Keys : json_filepath(k1) = json_filepath(k2) => k1 = k2)
    /\ [][\A k \in Keys : fs'[k] # fs[k] => (pc = "save" /\ k = cur.key)]_vars

\* a run for the latest date of one feed has written its artifact while the
\* artifact of the same date of the other feed, written before, is in place
C32_Witness ==
    /\ pc = "render" /\ ~cur.hit /\ cur.save = "ok"
    /\ fs[cur.key].state = "complete"
    /\ \E k \in Keys : /\ k.date = cur.key.date /\ k.feed # cur.key.feed
                       /\ fs[k].state = "complete" /\ fs[k].data # <<>>

====
